---- MODULE Spec2Model ----
(***************************************************************************)
(* A model of the shop package registry (github.com/alex-ac/shop):         *)
(*   - the registry namespace engine (RegistryImpl) layered on the         *)
(*     repository (repositoryImpl) and the file backend (FileFS);          *)
(*   - the fan-out writer TeeWriter and MakeArchive.                       *)
(* Paths are sequences of segments, relative to the repository root.       *)
(***************************************************************************)
EXTENDS Integers, Sequences, FiniteSets, TLC

(***************************************************************************)
(* Bounds of the model.                                                    *)
(***************************************************************************)
\* number of registry operations in one behaviour
MaxOps == 3
\* time.Now() yields a value in 1..MaxTime
MaxTime == 1

(***************************************************************************)
(* Input universes: all are valid names in the sense of the validators.    *)
(***************************************************************************)
IdA == "aaaaaaaaaaaaaaaaaaaaaaaaaaaaaaaaaaaaaaaa"
IdB == "0123456789abcdef0123456789abcdef01234567"
InstanceIds == {IdA, IdB}
PackageNames == {"latest", "tools/clang"}
TagKeys == {"git_revision"}
TagValues == {"deadbeef"}
RefNames == {"latest"}
Times == 1..MaxTime
\* Malformed arguments: each is refused by the validator of its field
BadPackageNames == {".."}
BadInstanceIds == {"abc"}
BadTagKeys == {"-k"}
BadTagValues == {".v"}
BadRefNames == {"9"}
\* Package names of which one is a parent of the other
NestedPackageNames == {"tools", "tools/clang", "tools/gcc", "tools/package.json"}
\* A package and the packages named after its storage prefixes and its manifest
IsolatedPackage == "latest"
IsolatedPackageNames ==
  {IsolatedPackage, "latest/tags", "latest/refs", "latest/instances", "latest/package.json"}
\* A package and the package names that lie on the path of one of its tag objects
ShadowedPackage == "latest"
ShadowPackageNames ==
  {ShadowedPackage,
   "latest/tags/git_revision/deadbeef/aaaaaaaaaaaaaaaaaaaaaaaaaaaaaaaaaaaaaaaa",
   "latest/instances/aaaaaaaaaaaaaaaaaaaaaaaaaaaaaaaaaaaaaaaa/tags/git_revision/deadbeef"}

(***************************************************************************)
(* Constants of the registry key space.                                    *)
(***************************************************************************)
LatestVersion == "1.0.0"
RegistryManifestKey == "shop.json"
RepositoryManifestKey == "shop-repository.json"
RegistryPackagesPrefix == "/packages/"
RegistryPackageManifestKey == "package.json"
RegistryPackageReferencesPrefix == "/refs/"
RegistryPackageInstancesPrefix == "/instances/"
RegistryPackageInstanceManifestKey == "instance.json"
RegistryPackageTagsPrefix == "/tags/"
RegistryPackageInstanceTagsPrefix == "/tags/"
RegistryPackageInstanceIdLen == 40
RegistryCASPrefix == "/cas/"
RegistryCASArchiveExtension == ".tgz"

(***************************************************************************)
(* Errors.  A Go error value is nil or carries a list of messages; a       *)
(* *multierror.Error is a non-nil error whose list may be empty.           *)
(***************************************************************************)
NilErr == [nil |-> TRUE, errs |-> <<>>]
Err(code) == [nil |-> FALSE, errs |-> <<code>>]

\* multierror.Append(e1, e2, ...): always a non-nil *multierror.Error
MultiAppend(es) ==
  LET RECURSIVE Cat(_)
      Cat(i) == IF i > Len(es) THEN <<>> ELSE es[i].errs \o Cat(i + 1)
  IN [nil |-> FALSE, errs |-> Cat(1)]

\* (*multierror.Error).ErrorOrNil
ErrorOrNil(e) == IF e.errs = <<>> THEN NilErr ELSE e

(***************************************************************************)
(* path/filepath                                                           *)
(***************************************************************************)
RECURSIVE SegmentsFrom(_, _, _)
SegmentsFrom(s, i, seg) ==
  IF i > Len(s) THEN <<seg>>
  ELSE IF SubSeq(s, i, i) = "/" THEN <<seg>> \o SegmentsFrom(s, i + 1, "")
  ELSE SegmentsFrom(s, i + 1, seg \o SubSeq(s, i, i))

\* The strings the registry joins into keys, each split at '/' once
PathParts ==
  PackageNames \cup InstanceIds \cup TagKeys \cup TagValues \cup RefNames
    \cup {RegistryPackagesPrefix, RegistryPackageManifestKey, RegistryPackageReferencesPrefix,
          RegistryPackageInstancesPrefix, RegistryPackageInstanceManifestKey,
          RegistryPackageTagsPrefix, RegistryPackageInstanceTagsPrefix, RegistryCASPrefix,
          RegistryManifestKey, RepositoryManifestKey}
    \cup {id \o RegistryCASArchiveExtension : id \in InstanceIds \cup BadInstanceIds}
    \cup {"packages", "instances", "tags", "refs", "cas"}
    \cup BadPackageNames \cup BadInstanceIds \cup BadTagKeys \cup BadTagValues \cup BadRefNames
    \cup NestedPackageNames \cup {""} \cup ShadowPackageNames \cup IsolatedPackageNames
SplitPath == [s \in PathParts |-> SegmentsFrom(s, 1, "")]

\* filepath.Clean on a rooted path, as a sequence of segments
RECURSIVE Clean(_, _)
Clean(segs, acc) ==
  IF segs = <<>> THEN acc
  ELSE LET h == Head(segs) IN
       IF h = "" \/ h = "." THEN Clean(Tail(segs), acc)
       ELSE IF h = ".." THEN
              Clean(Tail(segs), IF acc = <<>> THEN acc ELSE SubSeq(acc, 1, Len(acc) - 1))
       ELSE Clean(Tail(segs), Append(acc, h))

\* filepath.Join(parts...): the first part of every key is rooted
Join(parts) ==
  LET RECURSIVE Cat(_)
      Cat(i) == IF i > Len(parts) THEN <<>> ELSE SplitPath[parts[i]] \o Cat(i + 1)
  IN Clean(Cat(1), <<>>)

\* filepath.Dir of a cleaned path
Dir(p) == IF p = <<>> THEN p ELSE SubSeq(p, 1, Len(p) - 1)

(***************************************************************************)
(* The file backend: a tree of directories and files.                      *)
(***************************************************************************)
EmptyFiles == [p \in {} |-> NilErr]

IsDir(st, p) == p \in st.dirs
IsFile(st, p) == p \in DOMAIN st.files
ProperPrefixes(p) == {SubSeq(p, 1, k) : k \in 0..(Len(p) - 1)}
Children(st, p) == {q \in st.dirs \cup DOMAIN st.files : q # <<>> /\ Dir(q) = p}

\* the error of resolving the parent directory of p, "" when it resolves
ParentError(st, p) ==
  IF \E q \in ProperPrefixes(p) : IsFile(st, q) THEN "ENOTDIR"
  ELSE IF ~IsDir(st, Dir(p)) THEN "ENOENT"
  ELSE ""

\* FileFS.MakeDir: os.MkdirAll
FileFS_MakeDir(st, p) ==
  IF \E q \in ProperPrefixes(p) \cup {p} : IsFile(st, q)
  THEN [fs |-> st, err |-> Err("ENOTDIR")]
  ELSE [fs |-> [st EXCEPT !.dirs = @ \cup ProperPrefixes(p) \cup {p}], err |-> NilErr]

\* FileFS.Write: os.WriteFile
FileFS_Write(st, p, data) ==
  IF ParentError(st, p) # "" THEN [fs |-> st, err |-> Err(ParentError(st, p))]
  ELSE IF IsDir(st, p) THEN [fs |-> st, err |-> Err("EISDIR")]
  ELSE [fs |-> [st EXCEPT !.files =
                  [q \in DOMAIN @ \cup {p} |-> IF q = p THEN data ELSE @[q]]],
        err |-> NilErr]

\* FileFS.Read: os.ReadFile
FileFS_Read(st, p) ==
  IF ParentError(st, p) # "" THEN [data |-> NilErr, err |-> Err(ParentError(st, p))]
  ELSE IF IsDir(st, p) THEN [data |-> NilErr, err |-> Err("EISDIR")]
  ELSE IF ~IsFile(st, p) THEN [data |-> NilErr, err |-> Err("ENOENT")]
  ELSE [data |-> st.files[p], err |-> NilErr]

\* FileFS.Remove: os.Remove
FileFS_Remove(st, p) ==
  IF ParentError(st, p) # "" THEN [fs |-> st, err |-> Err(ParentError(st, p))]
  ELSE IF IsFile(st, p)
  THEN [fs |-> [st EXCEPT !.files = [q \in DOMAIN @ \ {p} |-> @[q]]], err |-> NilErr]
  ELSE IF ~IsDir(st, p) THEN [fs |-> st, err |-> Err("ENOENT")]
  ELSE IF Children(st, p) # {} \/ p = <<>> THEN [fs |-> st, err |-> Err("ENOTEMPTY")]
  ELSE [fs |-> [st EXCEPT !.dirs = @ \ {p}], err |-> NilErr]

\* FileFS.Exists: os.Stat
FileFS_Exists(st, p) ==
  IF ParentError(st, p) = "ENOTDIR" THEN [ok |-> FALSE, err |-> Err("ENOTDIR")]
  ELSE [ok |-> IsDir(st, p) \/ IsFile(st, p), err |-> NilErr]

\* FileFS.ListDir and the drained fileFSCursor: the entries of the directory
\* (in the order of the directory, which the backend does not fix) and the
\* error that ends the listing.
FileFS_ListDir(st, p) ==
  IF ParentError(st, p) # "" THEN [entries |-> {}, err |-> Err(ParentError(st, p))]
  ELSE IF IsFile(st, p) THEN [entries |-> {}, err |-> Err("ENOTDIR")]
  ELSE IF ~IsDir(st, p) THEN [entries |-> {}, err |-> Err("ENOENT")]
  ELSE [entries |-> {[Key |-> q[Len(q)], IsPrefix |-> IsDir(st, q)] : q \in Children(st, p)},
        err |-> NilErr]

(***************************************************************************)
(* Time and JSON.  time.Now() has a sub-second part that the JSON encoding *)
(* of UnixTimestamp (whole Unix seconds) drops.  A stored JSON document is *)
(* a record keyed by the json field names of the struct that was encoded.  *)
(***************************************************************************)
Nanos == {0, 1}
Now == [sec : Times, nsec : Nanos]
ZeroTime == [sec |-> 0, nsec |-> 0]

\* UnixTimestamp.MarshalJSON / UnmarshalJSON
UnixTimestamp_MarshalJSON(ut) == ut.sec
UnixTimestamp_UnmarshalJSON(v) == [sec |-> v, nsec |-> 0]

Field(doc, f, zero) == IF f \in DOMAIN doc THEN doc[f] ELSE zero
TimeField(doc, f) ==
  IF f \in DOMAIN doc THEN UnixTimestamp_UnmarshalJSON(doc[f]) ELSE ZeroTime

\* json.Marshal / json.Unmarshal of a Tag
MarshalTag(t) ==
  [api_version |-> t.ApiVersion, package |-> t.Package, key |-> t.Key,
   value |-> t.Value, id |-> t.Id, updated_at |-> UnixTimestamp_MarshalJSON(t.UpdatedAt)]
UnmarshalTag(doc) ==
  [ApiVersion |-> Field(doc, "api_version", ""), Package |-> Field(doc, "package", ""),
   Key |-> Field(doc, "key", ""), Value |-> Field(doc, "value", ""),
   Id |-> Field(doc, "id", ""), UpdatedAt |-> TimeField(doc, "updated_at")]

\* json.Marshal / json.Unmarshal of a Reference
MarshalReference(r) ==
  [api_version |-> r.ApiVersion, package |-> r.Package, name |-> r.Name,
   id |-> r.Id, updated_at |-> UnixTimestamp_MarshalJSON(r.UpdatedAt)]
UnmarshalReference(doc) ==
  [ApiVersion |-> Field(doc, "api_version", ""), Package |-> Field(doc, "package", ""),
   Name |-> Field(doc, "name", ""), Id |-> Field(doc, "id", ""),
   UpdatedAt |-> TimeField(doc, "updated_at")]

\* json.Marshal / json.Unmarshal of an Instance
MarshalInstance(i) ==
  [api_version |-> i.ApiVersion, package |-> i.Package, id |-> i.Id,
   uploaded_at |-> UnixTimestamp_MarshalJSON(i.UploadedAt),
   updated_at |-> UnixTimestamp_MarshalJSON(i.UpdatedAt)]
UnmarshalInstance(doc) ==
  [ApiVersion |-> Field(doc, "api_version", ""), Package |-> Field(doc, "package", ""),
   Id |-> Field(doc, "id", ""), UploadedAt |-> TimeField(doc, "uploaded_at"),
   UpdatedAt |-> TimeField(doc, "updated_at")]

(***************************************************************************)
(* Tag, Reference, Instance values and the instance id validator.          *)
(***************************************************************************)
HexDigits == {"0", "1", "2", "3", "4", "5", "6", "7", "8", "9", "a", "b", "c", "d", "e", "f"}

IsValidInstanceId(id) ==
  /\ Len(id) = RegistryPackageInstanceIdLen
  /\ \A i \in 1..Len(id) : SubSeq(id, i, i) \in HexDigits

\* the Tag, Reference and Instance structs a caller passes to the registry
Tag(pkg, key, value, id, now) ==
  [ApiVersion |-> LatestVersion, Package |-> pkg, Key |-> key, Value |-> value,
   Id |-> id, UpdatedAt |-> now]
Reference(pkg, name, id, now) ==
  [ApiVersion |-> LatestVersion, Package |-> pkg, Name |-> name, Id |-> id, UpdatedAt |-> now]
Instance(pkg, id, now) ==
  [ApiVersion |-> LatestVersion, Package |-> pkg, Id |-> id, UploadedAt |-> now,
   UpdatedAt |-> now]
\* the zero values of the structs
ZeroTag == [ApiVersion |-> "", Package |-> "", Key |-> "", Value |-> "", Id |-> "",
            UpdatedAt |-> ZeroTime]
ZeroReference == [ApiVersion |-> "", Package |-> "", Name |-> "", Id |-> "",
                  UpdatedAt |-> ZeroTime]
ZeroInstance == [ApiVersion |-> "", Package |-> "", Id |-> "", UploadedAt |-> ZeroTime,
                 UpdatedAt |-> ZeroTime]

(***************************************************************************)
(* The name validators, rune by rune.                                      *)
(***************************************************************************)
UpperLetters == {"A", "B", "C", "D", "E", "F", "G", "H", "I", "J", "K", "L", "M",
                 "N", "O", "P", "Q", "R", "S", "T", "U", "V", "W", "X", "Y", "Z"}
LowerLetters == {"a", "b", "c", "d", "e", "f", "g", "h", "i", "j", "k", "l", "m",
                 "n", "o", "p", "q", "r", "s", "t", "u", "v", "w", "x", "y", "z"}
DecimalDigits == {"0", "1", "2", "3", "4", "5", "6", "7", "8", "9"}
\* r >= 'A' && r <= 'Z' || r >= 'a' && r <= 'z'
IsLetter(r) == r \in UpperLetters \/ r \in LowerLetters
\* r >= '0' && r <= '9'
IsDigit(r) == r \in DecimalDigits
\* the rune at byte index i (from 0) of an ASCII string
RuneAt(v, i) == SubSeq(v, i + 1, i + 1)

\* state0, state1, state2 of IsValidPackageName: (ok, final, next) for rune r
PackageNameState(state, r) ==
  LET isPunct == r = "." \/ r = "_" \/ r = "-"
      isSlash == r = "/"
  IN CASE state = "state0" -> [ok |-> IsLetter(r), final |-> TRUE, next |-> "state1"]
       [] state = "state1" ->
            [ok |-> IsLetter(r) \/ IsDigit(r) \/ isPunct \/ isSlash,
             final |-> ~(isPunct \/ isSlash),
             next |-> IF isPunct THEN "state2" ELSE IF isSlash THEN "state0" ELSE "state1"]
       [] state = "state2" -> [ok |-> IsLetter(r) \/ IsDigit(r), final |-> TRUE, next |-> "state1"]

\* IsValidPackageName: the loop over the runes of name from index i
RECURSIVE PackageNameLoop(_, _, _, _)
PackageNameLoop(name, i, state, final) ==
  IF i >= Len(name) THEN final
  ELSE LET s == PackageNameState(state, RuneAt(name, i))
       IN IF ~s.ok THEN FALSE ELSE PackageNameLoop(name, i + 1, s.next, s.final)

IsValidPackageName(name) == PackageNameLoop(name, 0, "state0", FALSE)

\* An IsValidTagName that lets a digit come first
IsValidTagName_DigitFirst(v) ==
  /\ v # ""
  /\ \A i \in 0..(Len(v) - 1) :
       LET r == RuneAt(v, i)
       IN \/ IsLetter(r)
          \/ IsDigit(r)
          \/ (i # 0 /\ i # Len(v) - 1 /\ (r = "." \/ r = "_" \/ r = "-"))

IsValidTagName(v) ==
  /\ v # ""
  /\ \A i \in 0..(Len(v) - 1) :
       LET r == RuneAt(v, i)
       IN \/ IsLetter(r)
          \/ (i # 0 /\ IsDigit(r))
          \/ (i # 0 /\ i # Len(v) - 1 /\ (r = "." \/ r = "_" \/ r = "-"))

IsValidTagValue(v) ==
  /\ v # ""
  /\ \A i \in 0..(Len(v) - 1) :
       LET r == RuneAt(v, i)
       IN \/ IsLetter(r)
          \/ IsDigit(r)
          \/ (r = "_" /\ r = "-" /\ r = "@")
          \/ (i # 0 /\ i # Len(v) - 1 /\ r = ".")

\* refs and tags have the same name format
IsValidRefName(v) == IsValidTagName(v)

\* NewTag, NewReference, NewInstance: the struct and the error
NewTag(pkg, key, value, id, now) ==
  IF ~IsValidPackageName(pkg) THEN [tag |-> ZeroTag, err |-> Err("ErrInvalidPackageName")]
  ELSE IF ~IsValidTagName(key) THEN [tag |-> ZeroTag, err |-> Err("ErrInvalidTagName")]
  ELSE IF ~IsValidTagValue(key) THEN [tag |-> ZeroTag, err |-> Err("ErrInvalidTagValue")]
  ELSE IF ~IsValidInstanceId(id) THEN [tag |-> ZeroTag, err |-> Err("ErrInvalidInstanceId")]
  ELSE [tag |-> Tag(pkg, key, value, id, now), err |-> NilErr]
NewReference(pkg, name, id, now) ==
  IF ~IsValidPackageName(pkg) THEN [ref |-> ZeroReference, err |-> Err("ErrInvalidPackageName")]
  ELSE IF ~IsValidRefName(name)
  THEN [ref |-> ZeroReference, err |-> Err("ErrInvalidReferenceName")]
  ELSE IF ~IsValidInstanceId(id) THEN [ref |-> ZeroReference, err |-> Err("ErrInvalidInstanceId")]
  ELSE [ref |-> Reference(pkg, name, id, now), err |-> NilErr]
NewInstance(pkg, id, now) ==
  IF ~IsValidPackageName(pkg)
  THEN [instance |-> ZeroInstance, err |-> Err("ErrInvalidPackageName")]
  ELSE IF ~IsValidInstanceId(id)
  THEN [instance |-> ZeroInstance, err |-> Err("ErrInvalidInstanceId")]
  ELSE [instance |-> Instance(pkg, id, now), err |-> NilErr]

(***************************************************************************)
(* repositoryImpl over the file backend; rcfg is its RepositoryConfig.     *)
(***************************************************************************)
\* repositoryImpl.GetJSON; the decoder is applied by the caller
Repo_GetJSON(st, key) == FileFS_Read(st, key)

Repo_PutJSON(rcfg, st, key, doc) ==
  IF ~rcfg.Write THEN [fs |-> st, err |-> Err("ErrRepoWriteIsNotAllowed")]
  ELSE FileFS_Write(st, key, doc)

Repo_EnsurePrefix(rcfg, st, prefix) ==
  IF ~rcfg.Write THEN [fs |-> st, err |-> Err("ErrRepoAdminIsNotAllowed")]
  ELSE FileFS_MakeDir(st, prefix)

Repo_Delete(rcfg, st, key) ==
  IF ~rcfg.Write THEN [fs |-> st, err |-> Err("ErrRepoAdminIsNotAllowed")]
  ELSE FileFS_Remove(st, key)

Repo_List(st, prefix) == FileFS_ListDir(st, prefix)

(***************************************************************************)
(* RegistryImpl: keys.  rc is the RegistryConfig, st the root repository.  *)
(***************************************************************************)
\* key1 / key2 of PutPackageInstanceTag
TagForwardKey(pkg, key, value, id) ==
  Join(<<RegistryPackagesPrefix, pkg, RegistryPackageTagsPrefix, key, value, id>>)
TagReverseKey(pkg, key, value, id) ==
  Join(<<RegistryPackagesPrefix, pkg, RegistryPackageInstancesPrefix, id,
         RegistryPackageInstanceTagsPrefix, key, value>>)
\* key of PutPackageInstanceInfo
InstanceKey(pkg, id) ==
  Join(<<RegistryPackagesPrefix, pkg, RegistryPackageInstancesPrefix, id,
         RegistryPackageInstanceManifestKey>>)
\* key of PutPackageReference
ReferenceKey(pkg, name) ==
  Join(<<RegistryPackagesPrefix, pkg, RegistryPackageReferencesPrefix, name>>)
\* key of GetPackage / isPackage
PackageKey(name) == Join(<<RegistryPackagesPrefix, name, RegistryPackageManifestKey>>)
\* casKey of UploadPackageInstance
CasKey(id) == Join(<<RegistryCASPrefix, id \o RegistryCASArchiveExtension>>)

(***************************************************************************)
(* RegistryImpl: tags.                                                     *)
(***************************************************************************)
\* A PutPackageInstanceTag that leaves out the write of the reverse object
RegistryImpl_PutPackageInstanceTag_ForwardOnly(rc, st, tag0, now) ==
  LET tag == [tag0 EXCEPT !.ApiVersion = LatestVersion, !.UpdatedAt = now]
      key1 == TagForwardKey(tag.Package, tag.Key, tag.Value, tag.Id)
      prefix1 == Dir(key1)
      key2 == TagReverseKey(tag.Package, tag.Key, tag.Value, tag.Id)
      prefix2 == Dir(key2)
      m1 == Repo_EnsurePrefix(rc.RootRepo, st, prefix1)
      m2 == Repo_EnsurePrefix(rc.RootRepo, m1.fs, prefix2)
      merr == ErrorOrNil(MultiAppend(<<m1.err, m2.err>>))
      w1 == Repo_PutJSON(rc.RootRepo, m2.fs, key1, MarshalTag(tag))
  IN IF ~rc.Write THEN [fs |-> st, err |-> Err("ErrRegistryWriteIsNotAllowed")]
     ELSE IF ~merr.nil THEN [fs |-> m2.fs, err |-> merr]
     ELSE [fs |-> w1.fs, err |-> ErrorOrNil(MultiAppend(<<w1.err>>))]

RegistryImpl_PutPackageInstanceTag(rc, st, tag0, now) ==
  LET tag == [tag0 EXCEPT !.ApiVersion = LatestVersion, !.UpdatedAt = now]
      key1 == TagForwardKey(tag.Package, tag.Key, tag.Value, tag.Id)
      prefix1 == Dir(key1)
      key2 == TagReverseKey(tag.Package, tag.Key, tag.Value, tag.Id)
      prefix2 == Dir(key2)
      m1 == Repo_EnsurePrefix(rc.RootRepo, st, prefix1)
      m2 == Repo_EnsurePrefix(rc.RootRepo, m1.fs, prefix2)
      merr == ErrorOrNil(MultiAppend(<<m1.err, m2.err>>))
      w1 == Repo_PutJSON(rc.RootRepo, m2.fs, key1, MarshalTag(tag))
      w2 == Repo_PutJSON(rc.RootRepo, w1.fs, key2, MarshalTag(tag))
  IN IF ~rc.Write THEN [fs |-> st, err |-> Err("ErrRegistryWriteIsNotAllowed")]
     ELSE IF ~merr.nil THEN [fs |-> m2.fs, err |-> merr]
     ELSE [fs |-> w2.fs, err |-> ErrorOrNil(MultiAppend(<<w1.err, w2.err>>))]

RegistryImpl_DeletePackageInstanceTag(rc, st, tag) ==
  LET key1 == TagForwardKey(tag.Package, tag.Key, tag.Value, tag.Id)
      key2 == Join(<<RegistryPackagesPrefix, tag.Package, RegistryPackageInstancesPrefix,
                     tag.Id, RegistryPackageInstanceTagsPrefix, tag.Key>>)
      d1 == Repo_Delete(rc.RootRepo, st, key1)
      d2 == Repo_Delete(rc.RootRepo, d1.fs, key2)
  IN IF ~rc.Admin THEN [fs |-> st, err |-> Err("ErrRegistryAdminIsNotAllowed")]
     ELSE [fs |-> d2.fs, err |-> ErrorOrNil(MultiAppend(<<d1.err, d2.err>>))]

\* The permutations of a finite set: the orders in which a directory may be read
RECURSIVE Orders(_)
Orders(S) ==
  IF S = {} THEN {<<>>}
  ELSE UNION {{<<e>> \o o : o \in Orders(S \ {e})} : e \in S}

\* registryListPackageInstancesByTagCursor.GetNext from entry i of the listing:
\* the item (or error) of this call and the position of the next call
ByTagGetNext(st, ptv, ord, i) ==
  LET RECURSIVE Loop(_)
      Loop(j) ==
        IF j > Len(ord) THEN [item |-> <<>>, err |-> NilErr, next |-> j]
        ELSE IF ord[j].IsPrefix \/ ~IsValidInstanceId(ord[j].Key) THEN Loop(j + 1)
        ELSE LET key == Join(<<RegistryPackagesPrefix, ptv.Package, ptv.Key, ptv.Value,
                               ord[j].Key>>)
                 r == Repo_GetJSON(st, key)
             IN IF r.err.nil
                THEN [item |-> <<UnmarshalTag(r.data)>>, err |-> NilErr, next |-> j + 1]
                ELSE [item |-> <<>>, err |-> r.err, next |-> j + 1]
  IN Loop(i)

\* Draining a cursor: GetNext until it yields no item (exhaustion or an error);
\* g[i] is the result of GetNext when the listing stands at entry i
RECURSIVE Drain(_, _)
Drain(g, i) ==
  IF g[i].item = <<>> THEN [items |-> <<>>, err |-> g[i].err]
  ELSE LET rest == Drain(g, g[i].next)
       IN [items |-> g[i].item \o rest.items, err |-> rest.err]

\* RegistryImpl.ListPackageInstancesByTag, drained, for each order of the listing
ListPackageInstancesByTag(st, ptv) ==
  LET l == Repo_List(st, Join(<<RegistryPackagesPrefix, ptv.Package,
                                RegistryPackageTagsPrefix, ptv.Key, ptv.Value>>))
  IN IF ~l.err.nil THEN {[items |-> <<>>, err |-> l.err]}
     ELSE {Drain([i \in 1..(Len(ord) + 1) |-> ByTagGetNext(st, ptv, ord, i)], 1) :
             ord \in Orders(l.entries)}

(***************************************************************************)
(* RegistryImpl: references.                                               *)
(***************************************************************************)
RegistryImpl_GetPackageReference(st, pkg, name) ==
  LET key == Join(<<RegistryPackagesPrefix, name, RegistryPackageReferencesPrefix, name>>)
      r == Repo_GetJSON(st, key)
  IN IF r.err.nil THEN [ref |-> <<UnmarshalReference(r.data)>>, err |-> NilErr]
     ELSE [ref |-> <<>>, err |-> r.err]

RegistryImpl_PutPackageReference(rc, st, ref) ==
  LET key == ReferenceKey(ref.Package, ref.Name)
  IN IF ~rc.Write THEN [fs |-> st, err |-> Err("ErrRegistryWriteIsNotAllowed")]
     ELSE Repo_PutJSON(rc.RootRepo, st, key, MarshalReference(ref))

RegistryImpl_DeletePackageReference(rc, st, ref) ==
  LET key == ReferenceKey(ref.Package, ref.Name)
  IN IF ~rc.Admin THEN [fs |-> st, err |-> Err("ErrRegistryAdminIsNotAllowed")]
     ELSE Repo_Delete(rc.RootRepo, st, key)

(***************************************************************************)
(* RegistryImpl: instances.                                                *)
(***************************************************************************)
RegistryImpl_GetPackageInstanceInfo(st, name, id) ==
  LET key == Join(<<RegistryPackagesPrefix, name, RegistryPackagesPrefix, id,
                    RegistryPackageInstanceManifestKey>>)
      r == Repo_GetJSON(st, key)
  IN IF r.err.nil THEN [instance |-> <<UnmarshalInstance(r.data)>>, err |-> NilErr]
     ELSE [instance |-> <<>>, err |-> r.err]

RegistryImpl_PutPackageInstanceInfo(rc, st, instance0, now) ==
  LET key == InstanceKey(instance0.Package, instance0.Id)
      prefix == Dir(key)
      tagsPrefix == Clean(prefix \o SplitPath[RegistryPackageInstanceTagsPrefix], <<>>)
      m1 == Repo_EnsurePrefix(rc.RootRepo, st, prefix)
      instance == [instance0 EXCEPT !.UpdatedAt = now]
      w == Repo_PutJSON(rc.RootRepo, m1.fs, key, MarshalInstance(instance))
      m2 == Repo_EnsurePrefix(rc.RootRepo, w.fs, tagsPrefix)
  IN IF ~rc.Write THEN [fs |-> st, err |-> Err("ErrRegistryWriteIsNotAllowed")]
     ELSE IF ~m1.err.nil THEN m1
     ELSE [fs |-> m2.fs, err |-> ErrorOrNil(MultiAppend(<<w.err, m2.err>>))]

RegistryImpl_DeletePackageInstanceInfo(rc, st, instance) ==
  LET key == Join(<<RegistryPackagesPrefix, instance.Package, RegistryPackagesPrefix,
                    instance.Id>>)
  IN IF ~rc.Admin THEN [fs |-> st, err |-> Err("ErrRegistryAdminIsNotAllowed")]
     ELSE Repo_Delete(rc.RootRepo, st, key)

\* registryListPackageInstancesCursor.GetNext from entry i of the listing
InstancesGetNext(st, pkg, ord, i) ==
  LET RECURSIVE Loop(_)
      Loop(j) ==
        IF j > Len(ord) THEN [item |-> <<>>, err |-> NilErr, next |-> j]
        ELSE IF ~ord[j].IsPrefix THEN Loop(j + 1)
        ELSE IF ~IsValidInstanceId(ord[j].Key) THEN Loop(j + 1)
        ELSE LET r == RegistryImpl_GetPackageInstanceInfo(st, pkg, ord[j].Key)
             IN [item |-> r.instance, err |-> r.err, next |-> j + 1]
  IN Loop(i)

\* RegistryImpl.ListPackageInstances, drained, for each order of the listing
ListPackageInstances(st, name) ==
  LET l == Repo_List(st, Join(<<RegistryPackagesPrefix, name, RegistryPackageInstancesPrefix>>))
  IN IF ~l.err.nil THEN {[items |-> <<>>, err |-> l.err]}
     ELSE {Drain([i \in 1..(Len(ord) + 1) |-> InstancesGetNext(st, name, ord, i)], 1) :
             ord \in Orders(l.entries)}

(***************************************************************************)
(* RegistryImpl: packages.                                                 *)
(***************************************************************************)
\* json.Marshal / json.Unmarshal of a Package (Description and Repo are
\* omitempty; UpdatedAt is stored under the json name "package")
MarshalPackage(p) ==
  [api_version |-> p.ApiVersion, name |-> p.Name, package |-> UnixTimestamp_MarshalJSON(p.UpdatedAt)]
    @@ (IF p.Description = "" THEN <<>> ELSE [description |-> p.Description])
    @@ (IF p.Repo = "" THEN <<>> ELSE [repo |-> p.Repo])
UnmarshalPackage(doc) ==
  [ApiVersion |-> Field(doc, "api_version", ""), Name |-> Field(doc, "name", ""),
   Description |-> Field(doc, "description", ""), Repo |-> Field(doc, "repo", ""),
   UpdatedAt |-> TimeField(doc, "package")]

\* the Package struct a caller passes to the registry
Package(name, description, repo, now) ==
  [ApiVersion |-> LatestVersion, Name |-> name, Description |-> description,
   Repo |-> repo, UpdatedAt |-> now]
ZeroPackage == [ApiVersion |-> "", Name |-> "", Description |-> "", Repo |-> "",
                UpdatedAt |-> ZeroTime]
NewPackage(name, description, repo, now) ==
  IF ~IsValidPackageName(name) THEN [pkg |-> ZeroPackage, err |-> Err("ErrInvalidPackageName")]
  ELSE [pkg |-> Package(name, description, repo, now), err |-> NilErr]

RegistryImpl_isPackage(st, name) == FileFS_Exists(st, PackageKey(name))

RegistryImpl_GetPackage(st, name) ==
  LET r == Repo_GetJSON(st, PackageKey(name))
  IN IF r.err.nil THEN [manifest |-> <<UnmarshalPackage(r.data)>>, err |-> NilErr]
     ELSE [manifest |-> <<>>, err |-> r.err]

RegistryImpl_PutPackage(rc, st, pkg0, now) ==
  LET pkg == [pkg0 EXCEPT !.ApiVersion = LatestVersion, !.UpdatedAt = now]
      prefix == Join(<<RegistryPackagesPrefix, pkg.Name>>)
      key == PackageKey(pkg.Name)
      Sub(s) == Clean(prefix \o SplitPath[s], <<>>)
      m0 == Repo_EnsurePrefix(rc.RootRepo, st, prefix)
      w == Repo_PutJSON(rc.RootRepo, m0.fs, key, MarshalPackage(pkg))
      m1 == Repo_EnsurePrefix(rc.RootRepo, w.fs, Sub(RegistryPackageInstancesPrefix))
      m2 == Repo_EnsurePrefix(rc.RootRepo, m1.fs, Sub(RegistryPackageReferencesPrefix))
      m3 == Repo_EnsurePrefix(rc.RootRepo, m2.fs, Sub(RegistryPackageTagsPrefix))
  IN IF ~rc.Admin THEN [fs |-> st, err |-> Err("ErrRegistryAdminIsNotAllowed")]
     ELSE IF ~m0.err.nil THEN m0
     ELSE IF ~w.err.nil THEN w
     ELSE [fs |-> m3.fs, err |-> MultiAppend(<<m1.err, m2.err, m3.err>>)]

(***************************************************************************)
(* The registry as a state machine.                                        *)
(*   cfg   the RegistryConfig of the RegistryImpl (fixed at construction)  *)
(*   fs    the content of the root repository                              *)
(*   last  the last registry call: its name, arguments and returned error  *)
(*   nops  the number of calls made                                        *)
(*   tagCallsNil  every Put/DeletePackageInstanceTag so far returned nil   *)
(***************************************************************************)
VARIABLES cfg, fs, last, nops, tagCallsNil

(***************************************************************************)
(* One TeeWriter.Write call.                                               *)
(*   tW         the TeeWriter: the kind of each destination writer         *)
(*   tData      the data argument                                          *)
(*   tMain      the caller: "idle", "run" (tasks spawned, in group.Wait)   *)
(*              or "returned"                                              *)
(*   tTask      per destination, the task's position and its locals:       *)
(*              off bytes consumed of its data, n and err; and late, the   *)
(*              number of sub-writes it made after the cancellation        *)
(*   tCancelled the shared context is cancelled                            *)
(*   tGroup     the errors collected by the multierror.Group               *)
(*   tRecv      per destination, the bytes it has accepted so far          *)
(*   tFailed    per destination, the error its Write returned in this call *)
(*   tRet       the (n, err) the call returned                             *)
(***************************************************************************)
VARIABLES tW, tData, tMain, tTask, tCancelled, tGroup, tRecv, tFailed, tRet

(***************************************************************************)
(* One MakeArchive call.                                                   *)
(*   aPc      "AddFS", "archive.Close", "compressor.Close", "returned",    *)
(*            or "off" when no archive is being made                       *)
(*   aSent    the number of bytes of the compressed stream handed to the   *)
(*            TeeWriter so far                                             *)
(*   aWriting a tee.Write issued by the gzip writer is in progress         *)
(*   aZErr    the sticky error of the gzip writer                          *)
(*   aRet     the (id, err) MakeArchive returned                           *)
(***************************************************************************)
VARIABLES aPc, aSent, aWriting, aZErr, aRet

(***************************************************************************)
(* Two MakeArchive runs over a directory tree, to compare their outputs.   *)
(*   dTree1, dTree2  the tree at the time of the first and the second run  *)
(*   dOut1, dOut2    <<>> or the (output, id) of the run                   *)
(***************************************************************************)
VARIABLES dTree1, dTree2, dOut1, dOut2

(***************************************************************************)
(* One call of a validator or constructor.                                 *)
(*   vName    the string given to a name validator                         *)
(*   vResult  the validator called and what it returned                    *)
(*   nArgs    the (pkg, key, value, id) given to NewTag                    *)
(*   nResult  <<>> or the (tag, err) NewTag returned                       *)
(***************************************************************************)
VARIABLES vName, vResult, nArgs, nResult

(***************************************************************************)
(* The secondary repositories of the registry and one leaf cursor.         *)
(*   repositories  per registered repository name, its RepositoryConfig    *)
(*                 and the content of its backend                          *)
(*   cur           <<>> or the cursor object: its kind and its fields      *)
(*   cRets         the results of the GetNext calls made on cur, in order  *)
(***************************************************************************)
VARIABLES repositories, cur, cRets

tarVars == <<dTree1, dTree2, dOut1, dOut2>>
valVars == <<vName, vResult, nArgs, nResult>>
auxVars == <<repositories, cur, cRets>>
pureVars == <<tarVars, valVars, auxVars>>
regVars == <<cfg, fs, last, nops, tagCallsNil>>
teeVars == <<tW, tData, tMain, tTask, tCancelled, tGroup, tRecv, tFailed, tRet>>
arcVars == <<aPc, aSent, aWriting, aZErr, aRet>>
vars == <<regVars, teeVars, arcVars, pureVars>>

\* No Write call and no MakeArchive call is in progress
TeeIdle ==
  /\ tW = <<>> /\ tData = <<>> /\ tMain = "idle" /\ tTask = <<>> /\ tCancelled = FALSE
  /\ tGroup = <<>> /\ tRecv = <<>> /\ tFailed = <<>> /\ tRet = [n |-> 0, err |-> NilErr]
ArchiveOff ==
  /\ aPc = "off" /\ aSent = 0 /\ aWriting = FALSE /\ aZErr = NilErr
  /\ aRet = [id |-> <<>>, err |-> NilErr]
\* No archive comparison and no validator call is in progress
TarIdle == dTree1 = <<>> /\ dTree2 = <<>> /\ dOut1 = <<>> /\ dOut2 = <<>>
ValIdle == vName = "" /\ vResult = <<>> /\ nArgs = <<>> /\ nResult = <<>>
AuxIdle == repositories = <<>> /\ cur = <<>> /\ cRets = <<>>
PureIdle == TarIdle /\ ValIdle /\ AuxIdle

RegistryConfigs ==
  [Admin : BOOLEAN, Write : BOOLEAN, RootRepo : [Admin : BOOLEAN, Write : BOOLEAN]]

\* The root repository of an initialized registry: NewRegistry succeeds only
\* when shop.json can be read.
RepositoryManifestDoc ==
  [api_version |-> LatestVersion, url |-> "file:///repo", name |-> "root", updated_at |-> 0]
RegistryManifestDoc ==
  [api_version |-> LatestVersion, name |-> "acme", root_repo |-> RepositoryManifestDoc,
   updated_at |-> 0]
InitialFS ==
  [dirs |-> {<<>>, Join(<<RegistryPackagesPrefix>>), Join(<<RegistryCASPrefix>>)},
   files |-> (<<RegistryManifestKey>> :> RegistryManifestDoc)
               @@ (<<RepositoryManifestKey>> :> RepositoryManifestDoc)]

Call(op, pkg, key, value, id, err) ==
  [op |-> op, pkg |-> pkg, key |-> key, value |-> value, id |-> id, err |-> err]

Init ==
  /\ cfg \in RegistryConfigs
  /\ fs = InitialFS
  /\ last = Call("NewRegistry", "", "", "", "", NilErr)
  /\ nops = 0
  /\ tagCallsNil = TRUE
  /\ TeeIdle
  /\ ArchiveOff
  /\ PureIdle

PutPackage ==
  \E name \in PackageNames, now \in Now :
    LET r == RegistryImpl_PutPackage(cfg, fs, Package(name, "", "", now), now)
    IN /\ nops < MaxOps
       /\ fs' = r.fs
       /\ last' = Call("PutPackage", name, "", "", "", r.err)
       /\ nops' = nops + 1
       /\ UNCHANGED <<cfg, tagCallsNil, teeVars, arcVars, pureVars>>

PutPackageInstanceInfo ==
  \E pkg \in PackageNames, id \in InstanceIds, now \in Now :
    LET r == RegistryImpl_PutPackageInstanceInfo(cfg, fs, Instance(pkg, id, now), now)
    IN /\ nops < MaxOps
       /\ fs' = r.fs
       /\ last' = Call("PutPackageInstanceInfo", pkg, "", "", id, r.err)
       /\ nops' = nops + 1
       /\ UNCHANGED <<cfg, tagCallsNil, teeVars, arcVars, pureVars>>

\* the delete operations read the names and the id of the struct they are
\* given, never its time
DeletePackageInstanceInfo ==
  \E pkg \in PackageNames, id \in InstanceIds :
    LET r == RegistryImpl_DeletePackageInstanceInfo(cfg, fs, Instance(pkg, id, ZeroTime))
    IN /\ nops < MaxOps
       /\ fs' = r.fs
       /\ last' = Call("DeletePackageInstanceInfo", pkg, "", "", id, r.err)
       /\ nops' = nops + 1
       /\ UNCHANGED <<cfg, tagCallsNil, teeVars, arcVars, pureVars>>

PutPackageInstanceTag ==
  \E pkg \in PackageNames, key \in TagKeys, value \in TagValues, id \in InstanceIds,
     now \in Now :
    LET r == RegistryImpl_PutPackageInstanceTag(cfg, fs, Tag(pkg, key, value, id, now), now)
    IN /\ nops < MaxOps
       /\ fs' = r.fs
       /\ last' = Call("PutPackageInstanceTag", pkg, key, value, id, r.err)
       /\ nops' = nops + 1
       /\ tagCallsNil' = (tagCallsNil /\ r.err.nil)
       /\ UNCHANGED <<cfg, teeVars, arcVars, pureVars>>

DeletePackageInstanceTag ==
  \E pkg \in PackageNames, key \in TagKeys, value \in TagValues, id \in InstanceIds :
    LET r == RegistryImpl_DeletePackageInstanceTag(cfg, fs,
                                                   Tag(pkg, key, value, id, ZeroTime))
    IN /\ nops < MaxOps
       /\ fs' = r.fs
       /\ last' = Call("DeletePackageInstanceTag", pkg, key, value, id, r.err)
       /\ nops' = nops + 1
       /\ tagCallsNil' = (tagCallsNil /\ r.err.nil)
       /\ UNCHANGED <<cfg, teeVars, arcVars, pureVars>>

PutPackageReference ==
  \E pkg \in PackageNames, name \in RefNames, id \in InstanceIds, now \in Now :
    LET r == RegistryImpl_PutPackageReference(cfg, fs, Reference(pkg, name, id, now))
    IN /\ nops < MaxOps
       /\ fs' = r.fs
       /\ last' = Call("PutPackageReference", pkg, name, "", id, r.err)
       /\ nops' = nops + 1
       /\ UNCHANGED <<cfg, tagCallsNil, teeVars, arcVars, pureVars>>

DeletePackageReference ==
  \E pkg \in PackageNames, name \in RefNames :
    LET r == RegistryImpl_DeletePackageReference(cfg, fs,
                                                 Reference(pkg, name, IdA, ZeroTime))
    IN /\ nops < MaxOps
       /\ fs' = r.fs
       /\ last' = Call("DeletePackageReference", pkg, name, "", "", r.err)
       /\ nops' = nops + 1
       /\ UNCHANGED <<cfg, tagCallsNil, teeVars, arcVars, pureVars>>

Next ==
  \/ PutPackage
  \/ PutPackageInstanceInfo
  \/ DeletePackageInstanceInfo
  \/ PutPackageInstanceTag
  \/ DeletePackageInstanceTag
  \/ PutPackageReference
  \/ DeletePackageReference

Spec == Init /\ [][Next]_vars

(***************************************************************************)
(* Properties of the registry.                                             *)
(***************************************************************************)
ForwardExists(st, pkg, key, value, id) == IsFile(st, TagForwardKey(pkg, key, value, id))
ReverseExists(st, pkg, key, value, id) == IsFile(st, TagReverseKey(pkg, key, value, id))
Items(d) == {d.items[i] : i \in 1..Len(d.items)}
Returned(op) == last.op = op /\ last.err.nil
\* s' is the state right after the call op was made on the arguments of the
\* successful call put recorded in s
CalledAfter(op, put) ==
  /\ last.op = put /\ last.err.nil
  /\ nops' = nops + 1
  /\ last'.op = op
  /\ last'.pkg = last.pkg /\ last'.key = last.key /\ last'.value = last.value
  /\ last'.id = last.id

\* C1: after PutPackageInstanceTag({P,K,V,I}) returned nil for an existing
\* package P, draining ListPackageInstancesByTag({P,K},V) yields without error
\* exactly the Tag records stored for (K,V) in P, the one for I among them,
\* each once.
C1_TagRoundTrip ==
  (Returned("PutPackageInstanceTag") /\ RegistryImpl_isPackage(fs, last.pkg).ok) =>
    \A d \in ListPackageInstancesByTag(fs, [Package |-> last.pkg, Key |-> last.key,
                                            Value |-> last.value]) :
      LET tagged == {id \in InstanceIds :
                       ForwardExists(fs, last.pkg, last.key, last.value, id)}
      IN /\ d.err.nil
         /\ Items(d) = {UnmarshalTag(fs.files[TagForwardKey(last.pkg, last.key, last.value, id)]) :
                          id \in tagged}
         /\ Len(d.items) = Cardinality(tagged)
         /\ last.id \in {t.Id : t \in Items(d)}

\* C2: DeletePackageInstanceTag(t) right after a successful
\* PutPackageInstanceTag(t), on an admin- and write-enabled registry, returns
\* nil, removes the forward and the reverse object, and the listing of (K,V)
\* then yields no element.
C2_TagDeleteRemovesBothHalves ==
  [][(CalledAfter("DeletePackageInstanceTag", "PutPackageInstanceTag")
        /\ cfg.Admin /\ cfg.Write) =>
       /\ last'.err.nil
       /\ ~ForwardExists(fs', last.pkg, last.key, last.value, last.id)
       /\ ~ReverseExists(fs', last.pkg, last.key, last.value, last.id)
       /\ \A d \in ListPackageInstancesByTag(fs', [Package |-> last.pkg, Key |-> last.key,
                                                   Value |-> last.value]) :
            d.items = <<>>]_vars

\* C3: as long as every PutPackageInstanceTag and DeletePackageInstanceTag
\* call returned nil, for every (P,K,V,I) the forward object exists iff the
\* reverse object exists, and the two hold the same payload.
C3_TagIndexConsistent ==
  tagCallsNil =>
    \A pkg \in PackageNames, key \in TagKeys, value \in TagValues, id \in InstanceIds :
      /\ ForwardExists(fs, pkg, key, value, id) <=> ReverseExists(fs, pkg, key, value, id)
      /\ ForwardExists(fs, pkg, key, value, id) =>
           fs.files[TagForwardKey(pkg, key, value, id)]
             = fs.files[TagReverseKey(pkg, key, value, id)]

\* C3 witness: a tag call returned nil and left both halves of its tag stored
C3_Witness ==
  /\ tagCallsNil
  /\ Returned("PutPackageInstanceTag")
  /\ ForwardExists(fs, last.pkg, last.key, last.value, last.id)
  /\ ReverseExists(fs, last.pkg, last.key, last.value, last.id)

\* C4: after PutPackageInstanceInfo(inst) returned nil the object is stored at
\* packages/<pkg>/instances/<id>/instance.json, GetPackageInstanceInfo(pkg, id)
\* returns that instance without error, and draining ListPackageInstances(pkg)
\* yields it without error.
C4_InstanceInfoRoundTrip ==
  Returned("PutPackageInstanceInfo") =>
    /\ IsFile(fs, InstanceKey(last.pkg, last.id))
    /\ LET g == RegistryImpl_GetPackageInstanceInfo(fs, last.pkg, last.id)
       IN /\ g.err.nil
          /\ g.instance # <<>>
          /\ g.instance[1].Package = last.pkg
          /\ g.instance[1].Id = last.id
    /\ \A d \in ListPackageInstances(fs, last.pkg) :
         /\ d.err.nil
         /\ \E i \in Items(d) : i.Package = last.pkg /\ i.Id = last.id

\* C5: DeletePackageInstanceInfo(inst) right after a successful
\* PutPackageInstanceInfo(inst), on an admin-enabled registry, removes
\* instances/<id>/instance.json and the tags/ prefix next to it, and leaves
\* every cas/<id>.tgz as it was.
C5_InstanceInfoDelete ==
  [][(CalledAfter("DeletePackageInstanceInfo", "PutPackageInstanceInfo") /\ cfg.Admin) =>
       /\ ~IsFile(fs', InstanceKey(last.pkg, last.id))
       /\ ~IsDir(fs', Join(<<RegistryPackagesPrefix, last.pkg, RegistryPackageInstancesPrefix,
                             last.id, RegistryPackageInstanceTagsPrefix>>))
       /\ \A id \in InstanceIds :
            FileFS_Read(fs', CasKey(id)) = FileFS_Read(fs, CasKey(id))]_vars

\* C6: after PutPackageReference for (P, N) returned nil,
\* GetPackageReference(P, N) returns without error the reference holding the
\* id of that put, whether or not P equals N.
C6_ReferenceReadYourWrite ==
  Returned("PutPackageReference") =>
    LET g == RegistryImpl_GetPackageReference(fs, last.pkg, last.key)
    IN /\ g.err.nil
       /\ g.ref # <<>>
       /\ g.ref[1].Id = last.id
       /\ g.ref[1].Package = last.pkg

(***************************************************************************)
(* TeeWriter.Write: one task per destination, run concurrently.            *)
(***************************************************************************)
\* number of destinations of a TeeWriter
MaxDest == 2
\* length of the data of one Write call
MaxData == 2

\* A destination is any io.Writer, which may accept a part of the data and may
\* return an error, or a hash.Hash, whose Write accepts everything.
DestKinds == {"writer", "hash"}
TeeWriters == UNION {[1..n -> DestKinds] : n \in 0..MaxDest}
Datas == {[i \in 1..l |-> i] : l \in 0..MaxData}

WriteError(k) == "write error of destination " \o ToString(k)
ContextCanceled == "context canceled"

\* the (n, err) a destination's Write may return for rem remaining bytes
WriteOutcomes(kind, k, rem) ==
  IF kind = "hash" THEN {[n |-> rem, err |-> ""]}
  ELSE [n : 0..rem, err : {"", WriteError(k)}]

\* late counts the sub-writes the task made when the context was cancelled
IdleTask == [pc |-> "idle", off |-> 0, n |-> 0, err |-> "", late |-> 0]

\* A loop condition that does not look at the context
TeeLoopCond_NoCtx(rem, err, cancelled) == rem > 0 /\ err = ""

\* the loop condition of a task: len(data) > 0 && err == nil && ctx.Err() == nil
TeeLoopCond(rem, err, cancelled) == rem > 0 /\ err = "" /\ ~cancelled

\* the error a task returns: ctx.Err() when it has none of its own and the
\* context is cancelled
TeeTaskError(err, cancelled) == IF err = "" /\ cancelled THEN ContextCanceled ELSE err

\* teeWriterError{error: err, n: n}
TeeWriterError(err, n) == [error |-> err, n |-> n]

\* A group that keeps only the first error it is given
GroupAppend_FirstOnly(gerrs, e) == IF gerrs = <<>> THEN <<e>> ELSE gerrs

\* multierror.Group.Go: the error a task returns is appended to the group's
GroupAppend(gerrs, e) == Append(gerrs, e)

\* An n of Write that starts from 0 instead of len(data)
TeeResultN_FromZero(len, gerrs) ==
  LET RECURSIVE Fold(_, _)
      Fold(i, n) == IF i > Len(gerrs) THEN n
                    ELSE Fold(i + 1, IF gerrs[i].n < n THEN gerrs[i].n ELSE n)
  IN Fold(1, 0)

\* n of Write: len(data), lowered to the n of each collected teeWriterError
TeeResultN(len, gerrs) ==
  LET RECURSIVE Fold(_, _)
      Fold(i, n) == IF i > Len(gerrs) THEN n
                    ELSE Fold(i + 1, IF gerrs[i].n < n THEN gerrs[i].n ELSE n)
  IN Fold(1, len)

\* err of Write: errors.ErrorOrNil()
TeeResultErr(gerrs) == IF gerrs = <<>> THEN NilErr ELSE [nil |-> FALSE, errs |-> gerrs]

\* the state of a Write(data) call on the TeeWriter w that has just begun
TeeBegin(w, data) ==
  /\ tW' = w
  /\ tData' = data
  /\ tMain' = "run"
  /\ tTask' = [k \in 1..Len(w) |-> IdleTask]
  /\ tCancelled' = FALSE
  /\ tGroup' = <<>>
  /\ tFailed' = [k \in 1..Len(w) |-> ""]
  /\ tRet' = [n |-> 0, err |-> NilErr]

\* group.Go: the caller spawns the task of the next destination
TeeGo ==
  \E k \in 1..Len(tW) :
    /\ tMain = "run"
    /\ tTask[k].pc = "idle"
    /\ \A j \in 1..(k - 1) : tTask[j].pc # "idle"
    /\ tTask' = [tTask EXCEPT ![k].pc = "check"]
    /\ UNCHANGED <<tW, tData, tMain, tCancelled, tGroup, tRecv, tFailed, tRet>>
    /\ UNCHANGED <<regVars, arcVars, pureVars>>

\* a task evaluates its loop condition
TeeCheck ==
  \E k \in 1..Len(tW) :
    /\ tTask[k].pc = "check"
    /\ tTask' = [tTask EXCEPT ![k].pc =
                   IF TeeLoopCond(Len(tData) - tTask[k].off, tTask[k].err, tCancelled)
                   THEN "write" ELSE "post"]
    /\ UNCHANGED <<tW, tData, tMain, tCancelled, tGroup, tRecv, tFailed, tRet>>
    /\ UNCHANGED <<regVars, arcVars, pureVars>>

\* n, err = w.Write(data); data = data[n:]
TeeWrite ==
  \E k \in 1..Len(tW) :
    \E o \in WriteOutcomes(tW[k], k, Len(tData) - tTask[k].off) :
      /\ tTask[k].pc = "write"
      /\ tTask' = [tTask EXCEPT ![k] = [pc |-> "check", off |-> @.off + o.n,
                                        n |-> o.n, err |-> o.err,
                                        late |-> IF tCancelled THEN @.late + 1
                                                 ELSE @.late]]
      /\ tRecv' = [tRecv EXCEPT ![k] =
                     @ \o SubSeq(tData, tTask[k].off + 1, tTask[k].off + o.n)]
      /\ tFailed' = [tFailed EXCEPT ![k] = o.err]
      /\ UNCHANGED <<tW, tData, tMain, tCancelled, tGroup, tRet>>
      /\ UNCHANGED <<regVars, arcVars, pureVars>>

\* after the loop: the task takes ctx.Err() if it has no error of its own,
\* and on an error wraps it with its n and cancels the context
TeePost ==
  \E k \in 1..Len(tW) :
    LET err == TeeTaskError(tTask[k].err, tCancelled)
    IN /\ tTask[k].pc = "post"
       /\ tTask' = [tTask EXCEPT ![k].pc = "ret", ![k].err = err]
       /\ tCancelled' = (tCancelled \/ err # "")
       /\ UNCHANGED <<tW, tData, tMain, tGroup, tRecv, tFailed, tRet>>
       /\ UNCHANGED <<regVars, arcVars, pureVars>>

\* the task returns; the group collects its error
TeeTaskReturn ==
  \E k \in 1..Len(tW) :
    /\ tTask[k].pc = "ret"
    /\ tTask' = [tTask EXCEPT ![k].pc = "done"]
    /\ tGroup' = IF tTask[k].err = "" THEN tGroup
                 ELSE GroupAppend(tGroup, TeeWriterError(tTask[k].err, tTask[k].n))
    /\ UNCHANGED <<tW, tData, tMain, tCancelled, tRecv, tFailed, tRet>>
    /\ UNCHANGED <<regVars, arcVars, pureVars>>

\* A Write that computes (n, err) and returns without waiting for the tasks
TeeReturn_NoWait ==
  /\ tMain = "run"
  /\ \A k \in 1..Len(tW) : tTask[k].pc # "idle"
  /\ tRet' = [n |-> TeeResultN(Len(tData), tGroup), err |-> TeeResultErr(tGroup)]
  /\ tMain' = "returned"
  /\ tCancelled' = TRUE
  /\ UNCHANGED <<tW, tData, tTask, tGroup, tRecv, tFailed>>
  /\ UNCHANGED <<regVars, arcVars, pureVars>>

\* group.Wait() returns when every task has returned; Write computes (n, err)
\* and returns, running the deferred cancel()
TeeReturn ==
  /\ tMain = "run"
  /\ \A k \in 1..Len(tW) : tTask[k].pc = "done"
  /\ tRet' = [n |-> TeeResultN(Len(tData), tGroup), err |-> TeeResultErr(tGroup)]
  /\ tMain' = "returned"
  /\ tCancelled' = TRUE
  /\ UNCHANGED <<tW, tData, tTask, tGroup, tRecv, tFailed>>
  /\ UNCHANGED <<regVars, arcVars, pureVars>>

\* the registry takes no part in a Write or MakeArchive call
RegistryIdle ==
  /\ cfg = [Admin |-> FALSE, Write |-> FALSE, RootRepo |-> [Admin |-> FALSE, Write |-> FALSE]]
  /\ fs = InitialFS
  /\ last = Call("NewRegistry", "", "", "", "", NilErr)
  /\ nops = 0
  /\ tagCallsNil = TRUE

\* A Write(data) call on a TeeWriter of any destinations
InitTee ==
  /\ RegistryIdle
  /\ ArchiveOff
  /\ PureIdle
  /\ tW \in TeeWriters
  /\ tData \in Datas
  /\ tMain = "run"
  /\ tTask = [k \in 1..Len(tW) |-> IdleTask]
  /\ tCancelled = FALSE
  /\ tGroup = <<>>
  /\ tRecv = [k \in 1..Len(tW) |-> <<>>]
  /\ tFailed = [k \in 1..Len(tW) |-> ""]
  /\ tRet = [n |-> 0, err |-> NilErr]

NextTee ==
  \/ TeeGo
  \/ TeeCheck
  \/ TeeWrite
  \/ TeePost
  \/ TeeTaskReturn
  \/ TeeReturn

SpecTee == InitTee /\ [][NextTee]_vars

(***************************************************************************)
(* Properties of TeeWriter.Write.                                          *)
(***************************************************************************)
TeeReturned == aPc = "off" /\ tMain = "returned"
Dests == 1..Len(tW)
\* b_k: the bytes destination k accepted during the call
Accepted(k) == tTask[k].off
MinAccepted == CHOOSE m \in {Accepted(k) : k \in Dests} : \A k \in Dests : m <= Accepted(k)

\* C7: when no destination returned an error, Write returns n = len(data) and
\* a nil error, and every destination has received exactly data.
C7_TeeAllSucceed ==
  (TeeReturned /\ \A k \in Dests : tFailed[k] = "") =>
    /\ tRet.n = Len(tData)
    /\ tRet.err.nil
    /\ \A k \in Dests : tRecv[k] = tData

\* C7 witness: a call on two destinations returned without any error after a
\* destination took the data in several sub-writes
C7_Witness ==
  /\ TeeReturned
  /\ Len(tW) >= 2
  /\ \A k \in Dests : tFailed[k] = ""
  /\ \E k \in Dests : tTask[k].off = Len(tData) /\ 0 < tTask[k].n /\ tTask[k].n < Len(tData)

\* C8: when a destination failed, the n that Write returns is the minimum over
\* all destinations of the bytes each accepted during the call.
C8_TeeMinAccepted ==
  (TeeReturned /\ \E k \in Dests : tFailed[k] # "") => tRet.n = MinAccepted

\* C9: when a destination's write returned an error, Write returns a non-nil
\* error that contains the error of every destination whose write failed.
C9_TeeAggregatesErrors ==
  TeeReturned =>
    \A k \in Dests :
      tFailed[k] # "" =>
        /\ ~tRet.err.nil
        /\ \E i \in 1..Len(tRet.err.errs) : tRet.err.errs[i].error = tFailed[k]

\* C9 witness: a call returned after the writes of two destinations failed
C9_Witness ==
  /\ TeeReturned
  /\ \E j, k \in Dests : j # k /\ tFailed[j] # "" /\ tFailed[k] # ""

(***************************************************************************)
(* MakeArchive: tar.Writer -> gzip.Writer -> TeeWriter{dst, h}.            *)
(* The compressed stream is a sequence of numbered bytes; the gzip writer  *)
(* hands it to the TeeWriter in chunks, one tee.Write call per chunk, and  *)
(* stops writing after the first tee.Write that returned an error.         *)
(***************************************************************************)
\* length of the compressed stream of one archive
MaxStream == 3

\* tee := TeeWriter{dst, h}
ArchiveTee == <<"writer", "hash">>

\* hex.EncodeToString(h.Sum(nil)) of a hash that was fed bytes: SHA-1 is
\* taken to be collision free
Sha1Hex(bytes) == [sha1 |-> bytes]

\* the calls during which the gzip writer may write to the TeeWriter
ArchiveWritingPhases == {"AddFS", "archive.Close", "compressor.Close"}

\* bytes of the stream the current phase may still hand over: the gzip
\* trailer, written by compressor.Close, is the last byte of the stream
ArchiveRoom(pc, sent) ==
  IF pc = "compressor.Close" THEN MaxStream - sent ELSE MaxStream - sent - 1

\* the gzip writer (or its deflate stage) calls tee.Write(chunk)
ArchiveIssueWrite ==
  /\ aPc \in ArchiveWritingPhases
  /\ ~aWriting
  /\ aZErr.nil
  /\ \E l \in 1..ArchiveRoom(aPc, aSent) :
       TeeBegin(ArchiveTee, [i \in 1..l |-> aSent + i])
  /\ aWriting' = TRUE
  /\ UNCHANGED <<tRecv, aPc, aSent, aZErr, aRet>>
  /\ UNCHANGED <<regVars, pureVars>>

\* tee.Write returned to the gzip writer, which keeps its error; an error
\* during AddFS comes back as the error of AddFS, which MakeArchive returns
ArchiveWriteDone ==
  /\ aWriting
  /\ tMain = "returned"
  /\ aWriting' = FALSE
  /\ aSent' = aSent + Len(tData)
  /\ aZErr' = tRet.err
  /\ tMain' = "idle"
  /\ IF aPc = "AddFS" /\ ~tRet.err.nil
     THEN aPc' = "returned" /\ aRet' = [id |-> <<>>, err |-> tRet.err]
     ELSE UNCHANGED <<aPc, aRet>>
  /\ UNCHANGED <<tW, tData, tTask, tCancelled, tGroup, tRecv, tFailed, tRet>>
  /\ UNCHANGED <<regVars, pureVars>>

\* err = archive.AddFS(fs) returned nil
ArchiveAddFSDone ==
  /\ aPc = "AddFS"
  /\ ~aWriting
  /\ aPc' = "archive.Close"
  /\ UNCHANGED <<aSent, aWriting, aZErr, aRet>>
  /\ UNCHANGED <<regVars, teeVars, pureVars>>

\* err = archive.AddFS(fs) failed on reading fs: MakeArchive returns the error
ArchiveAddFSError ==
  /\ aPc = "AddFS"
  /\ ~aWriting
  /\ aPc' = "returned"
  /\ aRet' = [id |-> <<>>, err |-> Err("fs error")]
  /\ UNCHANGED <<aSent, aWriting, aZErr>>
  /\ UNCHANGED <<regVars, teeVars, pureVars>>

\* archive.Close() returned: its error is dropped, err is still the nil of
\* AddFS.  The tar footer went through the gzip writer, so the gzip header
\* at least has been handed to the TeeWriter by now.
ArchiveTarClosed ==
  /\ aPc = "archive.Close"
  /\ ~aWriting
  /\ aSent > 0
  /\ aPc' = "compressor.Close"
  /\ UNCHANGED <<aSent, aWriting, aZErr, aRet>>
  /\ UNCHANGED <<regVars, teeVars, pureVars>>

\* compressor.Close() returned: it wrote the rest of the stream and the
\* trailer unless the gzip writer had an error; its error is dropped and
\* MakeArchive returns (hex(h.Sum(nil)), nil)
ArchiveGzipClosed ==
  /\ aPc = "compressor.Close"
  /\ ~aWriting
  /\ ~aZErr.nil \/ aSent = MaxStream
  /\ aPc' = "returned"
  /\ aRet' = [id |-> Sha1Hex(tRecv[2]), err |-> NilErr]
  /\ UNCHANGED <<aSent, aWriting, aZErr>>
  /\ UNCHANGED <<regVars, teeVars, pureVars>>

\* MakeArchive(dst, fs) has been called
InitArchive ==
  /\ RegistryIdle
  /\ PureIdle
  /\ tW = ArchiveTee /\ tData = <<>> /\ tMain = "idle"
  /\ tTask = [k \in 1..2 |-> IdleTask] /\ tCancelled = FALSE /\ tGroup = <<>>
  /\ tRecv = [k \in 1..2 |-> <<>>] /\ tFailed = [k \in 1..2 |-> ""]
  /\ tRet = [n |-> 0, err |-> NilErr]
  /\ aPc = "AddFS" /\ aSent = 0 /\ aWriting = FALSE
  /\ aZErr = NilErr /\ aRet = [id |-> <<>>, err |-> NilErr]

NextArchive ==
  \/ ArchiveIssueWrite
  \/ ArchiveWriteDone
  \/ ArchiveAddFSDone
  \/ ArchiveAddFSError
  \/ ArchiveTarClosed
  \/ ArchiveGzipClosed
  \/ TeeGo
  \/ TeeCheck
  \/ TeeWrite
  \/ TeePost
  \/ TeeTaskReturn
  \/ TeeReturn

SpecArchive == InitArchive /\ [][NextArchive]_vars

(***************************************************************************)
(* Properties of MakeArchive.                                              *)
(***************************************************************************)
\* C10: MakeArchive returns a non-nil error whenever a write to dst failed
\* or was short, closing writes included; when it returns (id, nil), dst has
\* received exactly the bytes whose SHA-1 digest is id.
C10_ArchiveIdMatchesContent ==
  aPc = "returned" =>
    /\ (tRecv[1] # [i \in 1..aSent |-> i]) => ~aRet.err.nil
    /\ aRet.err.nil => aRet.id = Sha1Hex(tRecv[1])

(***************************************************************************)
(* The content of an archive: archive.AddFS(stripOwnerFS{os.DirFS(dir)})   *)
(* through gzip, when every write succeeds.  A directory tree maps the     *)
(* paths of its regular files to their content and metadata.               *)
(***************************************************************************)
\* the paths a tree may hold, in the lexical order in which fs.WalkDir visits
TreePaths == <<"bin/tool", "readme">>
FileContents == {"x", "yy"}
FilePerms == {"0644", "0755"}
FileOwners ==
  {[uid |-> 0, gid |-> 0, uname |-> "root", gname |-> "root"],
   [uid |-> 1000, gid |-> 100, uname |-> "alice", gname |-> "users"]}
FileMetas == [content : FileContents, perm : FilePerms, modTime : Now, owner : FileOwners]
TreePathSet == {TreePaths[i] : i \in 1..Len(TreePaths)}
Trees == UNION {[S -> FileMetas] : S \in SUBSET TreePathSet}

\* the fs.FileInfo of os.DirFS for a regular file: Sys() is the *syscall.Stat_t
DirFS_FileInfo(tree, name) ==
  [name |-> name, size |-> Len(tree[name].content), mode |-> tree[name].perm,
   modTime |-> tree[name].modTime, sys |-> <<tree[name].owner>>]

\* A stripOwnerFileInfo that hands out the Sys() of the wrapped FileInfo
stripOwnerFileInfo_KeepSys(fi) == fi

\* stripOwnerFileInfo{fi}: Sys() returns nil, every other method is fi's
stripOwnerFileInfo(fi) == [fi EXCEPT !.sys = <<>>]

\* stripOwnerDirEntry.Info of the entry for name, as read through
\* stripOwnerFS.Open and stripOwnerFile.ReadDir
stripOwnerDirEntry_Info(tree, name) == stripOwnerFileInfo(DirFS_FileInfo(tree, name))

\* tar.FileInfoHeader: name, size, mode and modification time of fi; the
\* owner fields are filled in only from a *syscall.Stat_t in fi.Sys()
FileInfoHeader(fi) ==
  [Name |-> fi.name, Size |-> fi.size, Mode |-> fi.mode, ModTime |-> fi.modTime,
   Uid |-> IF fi.sys = <<>> THEN 0 ELSE fi.sys[1].uid,
   Gid |-> IF fi.sys = <<>> THEN 0 ELSE fi.sys[1].gid,
   Uname |-> IF fi.sys = <<>> THEN "" ELSE fi.sys[1].uname,
   Gname |-> IF fi.sys = <<>> THEN "" ELSE fi.sys[1].gname]

\* tar.Writer.WriteHeader: the modification time is written in whole seconds
TarHeaderBlock(h) == [h EXCEPT !.ModTime = UnixTimestamp_MarshalJSON(h.ModTime)]

\* tar.Writer.AddFS: for each regular file, its header and its content
RECURSIVE AddFS(_, _)
AddFS(tree, i) ==
  IF i > Len(TreePaths) THEN <<>>
  ELSE IF TreePaths[i] \notin DOMAIN tree THEN AddFS(tree, i + 1)
  ELSE <<[header |-> TarHeaderBlock(FileInfoHeader(stripOwnerDirEntry_Info(tree, TreePaths[i]))),
          content |-> tree[TreePaths[i]].content]>> \o AddFS(tree, i + 1)

\* gzip.NewWriter(tee): the header carries no name and no time
GzipStream(tar) == [name |-> "", modTime |-> 0, deflate |-> tar]

\* the (output, id) of MakeArchive when every write succeeds
MakeArchive(tree) ==
  LET out == GzipStream(AddFS(tree, 1))
  IN [out |-> out, id |-> Sha1Hex(out)]

\* the first MakeArchive run
ArchiveFirstRun ==
  /\ dOut1 = <<>>
  /\ dOut1' = <<MakeArchive(dTree1)>>
  /\ UNCHANGED <<dTree1, dTree2, dOut2>>
  /\ UNCHANGED <<regVars, teeVars, arcVars, valVars, auxVars>>

\* chown of a file between the two runs
Chown ==
  \E name \in DOMAIN dTree2, owner \in FileOwners :
    /\ dOut1 # <<>> /\ dOut2 = <<>>
    /\ dTree2' = [dTree2 EXCEPT ![name].owner = owner]
    /\ UNCHANGED <<dTree1, dOut1, dOut2>>
    /\ UNCHANGED <<regVars, teeVars, arcVars, valVars, auxVars>>

\* chmod of a file between the two runs
Chmod ==
  \E name \in DOMAIN dTree2, perm \in FilePerms :
    /\ dOut1 # <<>> /\ dOut2 = <<>>
    /\ dTree2' = [dTree2 EXCEPT ![name].perm = perm]
    /\ UNCHANGED <<dTree1, dOut1, dOut2>>
    /\ UNCHANGED <<regVars, teeVars, arcVars, valVars, auxVars>>

\* the second MakeArchive run
ArchiveSecondRun ==
  /\ dOut1 # <<>> /\ dOut2 = <<>>
  /\ dOut2' = <<MakeArchive(dTree2)>>
  /\ UNCHANGED <<dTree1, dTree2, dOut1>>
  /\ UNCHANGED <<regVars, teeVars, arcVars, valVars, auxVars>>

InitTar ==
  /\ RegistryIdle /\ TeeIdle /\ ArchiveOff /\ ValIdle /\ AuxIdle
  /\ dTree1 \in Trees
  /\ dTree2 = dTree1
  /\ dOut1 = <<>> /\ dOut2 = <<>>

NextTar ==
  \/ ArchiveFirstRun
  \/ Chown
  \/ Chmod
  \/ ArchiveSecondRun

SpecTar == InitTar /\ [][NextTar]_vars

(***************************************************************************)
(* Properties of the archive content.                                      *)
(***************************************************************************)
BothRunsDone == dOut1 # <<>> /\ dOut2 # <<>>
\* the two trees have the same paths, contents, modes and modification times
SameButOwners ==
  /\ DOMAIN dTree1 = DOMAIN dTree2
  /\ \A name \in DOMAIN dTree1 :
       /\ dTree1[name].content = dTree2[name].content
       /\ dTree1[name].perm = dTree2[name].perm
       /\ dTree1[name].modTime = dTree2[name].modTime
OwnersDiffer == \E name \in DOMAIN dTree1 : dTree1[name].owner # dTree2[name].owner
NoOwnerInHeaders(out) ==
  \A i \in 1..Len(out.deflate) :
    LET h == out.deflate[i].header
    IN h.Uid = 0 /\ h.Gid = 0 /\ h.Uname = "" /\ h.Gname = ""

\* C11: two MakeArchive runs over trees that differ only in the owners of
\* their entries give the same output and the same id, and no tar header
\* carries owner information.
C11_ArchiveOwnerIndependent ==
  (BothRunsDone /\ SameButOwners) =>
    /\ dOut1[1].out = dOut2[1].out
    /\ dOut1[1].id = dOut2[1].id
    /\ NoOwnerInHeaders(dOut1[1].out) /\ NoOwnerInHeaders(dOut2[1].out)

\* C11 witness: both runs are done over trees that differ in an owner only
C11_Witness == BothRunsDone /\ SameButOwners /\ OwnersDiffer

\* C12: archiving a tree a second time after chown or permission-bit changes
\* that leave every path and content as they were gives the same output and
\* the same id.
C12_ArchiveSameAfterMetadataChange ==
  BothRunsDone =>
    /\ dOut1[1].out = dOut2[1].out
    /\ dOut1[1].id = dOut2[1].id

(***************************************************************************)
(* repositoryImpl and RegistryImpl: manifests and uploads.                 *)
(***************************************************************************)
\* FileFS.Create: os.OpenFile(O_WRONLY|O_CREATE|O_EXCL), an empty file
FileFS_Create(st, p) ==
  IF ParentError(st, p) # "" THEN [fs |-> st, err |-> Err(ParentError(st, p))]
  ELSE IF IsDir(st, p) \/ IsFile(st, p) THEN [fs |-> st, err |-> Err("EEXIST")]
  ELSE FileFS_Write(st, p, [blob |-> <<>>])

\* an io.Reader: the bytes it delivers and the error that ends them (nil for
\* io.EOF)
Reader(bytes, err) == [bytes |-> bytes, err |-> err]

\* A Put that creates the object and copies nothing into it
Repo_Put_NoCopy(st, key, body) ==
  LET c == FileFS_Create(st, key)
      w == FileFS_Write(c.fs, key, [blob |-> <<>>])
  IN IF ~c.err.nil THEN c
     ELSE [fs |-> w.fs, err |-> ErrorOrNil(MultiAppend(<<body.err, w.err>>))]

\* repositoryImpl.Put: create the file, copy body into it (io.Copy writes
\* what it read before the reader failed), close it
Repo_Put(st, key, body) ==
  LET c == FileFS_Create(st, key)
      w == FileFS_Write(c.fs, key, [blob |-> body.bytes])
  IN IF ~c.err.nil THEN c
     ELSE [fs |-> w.fs, err |-> ErrorOrNil(MultiAppend(<<body.err, w.err>>))]

\* json.Marshal / json.Unmarshal of a RepositoryManifest (ReadOnlyURL is omitempty)
MarshalRepositoryManifest(m) ==
  [api_version |-> m.ApiVersion, url |-> m.URL, name |-> m.Name,
   updated_at |-> UnixTimestamp_MarshalJSON(m.UpdatedAt)]
    @@ (IF m.ReadOnlyURL = "" THEN <<>> ELSE [readonly_url |-> m.ReadOnlyURL])
UnmarshalRepositoryManifest(doc) ==
  [ApiVersion |-> Field(doc, "api_version", ""), URL |-> Field(doc, "url", ""),
   Name |-> Field(doc, "name", ""), ReadOnlyURL |-> Field(doc, "readonly_url", ""),
   UpdatedAt |-> TimeField(doc, "updated_at")]

\* json.Marshal of a RegistryManifest
MarshalRegistryManifest(m) ==
  [api_version |-> m.ApiVersion, name |-> m.Name,
   root_repo |-> MarshalRepositoryManifest(m.RootRepo), repos |-> m.Repos,
   updated_at |-> UnixTimestamp_MarshalJSON(m.UpdatedAt)]

\* repositoryImpl.GetManifest
Repo_GetManifest(st) ==
  LET r == Repo_GetJSON(st, Join(<<RepositoryManifestKey>>))
  IN IF r.err.nil THEN [manifest |-> UnmarshalRepositoryManifest(r.data), err |-> NilErr]
     ELSE [manifest |-> UnmarshalRepositoryManifest(<<>>), err |-> r.err]

\* repositoryImpl.PutManifest
Repo_PutManifest(rcfg, st, manifest0, now) ==
  LET manifest == [manifest0 EXCEPT !.UpdatedAt = now]
  IN IF ~rcfg.Admin THEN [fs |-> st, err |-> Err("ErrRepoAdminIsNotAllowed")]
     ELSE Repo_PutJSON(rcfg, st, Join(<<RepositoryManifestKey>>),
                       MarshalRepositoryManifest(manifest))

\* A PutManifest that does not test the admin tier
RegistryImpl_PutManifest_NoGate(rc, st, manifest0, now) ==
  LET manifest == [manifest0 EXCEPT !.UpdatedAt = now]
  IN Repo_PutJSON(rc.RootRepo, st, Join(<<RegistryManifestKey>>),
                  MarshalRegistryManifest(manifest))

RegistryImpl_PutManifest(rc, st, manifest0, now) ==
  LET manifest == [manifest0 EXCEPT !.UpdatedAt = now]
  IN IF ~rc.Admin THEN [fs |-> st, err |-> Err("ErrRegistryAdminIsNotAllowed")]
     ELSE Repo_PutJSON(rc.RootRepo, st, Join(<<RegistryManifestKey>>),
                       MarshalRegistryManifest(manifest))

\* An Initialize that leaves RootRepo of the registry manifest at its zero value
RegistryImpl_Initialize_ZeroRootRepo(rc, st, name, now) ==
  LET g == Repo_GetManifest(st)
      registryManifest == [ApiVersion |-> LatestVersion, Name |-> name,
                           RootRepo |-> UnmarshalRepositoryManifest(<<>>), Repos |-> <<>>,
                           UpdatedAt |-> ZeroTime]
      p == RegistryImpl_PutManifest(rc, st, registryManifest, now)
      m1 == Repo_EnsurePrefix(rc.RootRepo, p.fs, Join(<<RegistryPackagesPrefix>>))
      m2 == Repo_EnsurePrefix(rc.RootRepo, m1.fs, Join(<<RegistryCASPrefix>>))
  IN IF ~rc.Admin THEN [fs |-> st, err |-> Err("ErrRegistryAdminIsNotAllowed")]
     ELSE IF ~g.err.nil THEN [fs |-> st, err |-> g.err]
     ELSE IF ~p.err.nil THEN p
     ELSE [fs |-> m2.fs, err |-> ErrorOrNil(MultiAppend(<<m1.err, m2.err>>))]

RegistryImpl_Initialize(rc, st, name, now) ==
  LET g == Repo_GetManifest(st)
      registryManifest == [ApiVersion |-> LatestVersion, Name |-> name,
                           RootRepo |-> g.manifest, Repos |-> <<>>, UpdatedAt |-> ZeroTime]
      p == RegistryImpl_PutManifest(rc, st, registryManifest, now)
      m1 == Repo_EnsurePrefix(rc.RootRepo, p.fs, Join(<<RegistryPackagesPrefix>>))
      m2 == Repo_EnsurePrefix(rc.RootRepo, m1.fs, Join(<<RegistryCASPrefix>>))
  IN IF ~rc.Admin THEN [fs |-> st, err |-> Err("ErrRegistryAdminIsNotAllowed")]
     ELSE IF ~g.err.nil THEN [fs |-> st, err |-> g.err]
     ELSE IF ~p.err.nil THEN p
     ELSE [fs |-> m2.fs, err |-> ErrorOrNil(MultiAppend(<<m1.err, m2.err>>))]

\* An UploadPackageInstance that uploads to the root repository when the
\* repository of the package is not registered
RegistryImpl_UploadPackageInstance_RootFallback(rc, st, repos, name, id, body, now) ==
  LET g == RegistryImpl_GetPackage(st, name)
      repoName == g.manifest[1].Repo
      root == repoName = "" \/ repoName \notin DOMAIN repos
      repo == IF root THEN [cfg |-> rc.RootRepo, fs |-> st] ELSE repos[repoName]
      n == NewInstance(name, id, now)
      m == Repo_EnsurePrefix(repo.cfg, repo.fs, Join(<<RegistryCASPrefix>>))
      w == Repo_Put(m.fs, CasKey(id), body)
      Out(r) == IF root THEN [fs |-> r.fs, repos |-> repos, err |-> r.err]
                ELSE [fs |-> st, repos |-> [repos EXCEPT ![repoName].fs = r.fs], err |-> r.err]
      Fail(err) == [fs |-> st, repos |-> repos, err |-> err]
  IN IF ~rc.Write THEN Fail(Err("ErrRegistryWriteIsNotAllowed"))
     ELSE IF ~g.err.nil THEN Fail(g.err)
     ELSE IF ~n.err.nil THEN Fail(n.err)
     ELSE IF ~m.err.nil THEN Out(m)
     ELSE Out(w)

\* RegistryImpl.UploadPackageInstance: repos is c.repositories, per name the
\* RepositoryConfig and the backend of a secondary repository
RegistryImpl_UploadPackageInstance(rc, st, repos, name, id, body, now) ==
  LET g == RegistryImpl_GetPackage(st, name)
      repoName == g.manifest[1].Repo
      root == repoName = ""
      repo == IF root THEN [cfg |-> rc.RootRepo, fs |-> st] ELSE repos[repoName]
      n == NewInstance(name, id, now)
      m == Repo_EnsurePrefix(repo.cfg, repo.fs, Join(<<RegistryCASPrefix>>))
      w == Repo_Put(m.fs, CasKey(id), body)
      Out(r) == IF root THEN [fs |-> r.fs, repos |-> repos, err |-> r.err]
                ELSE [fs |-> st, repos |-> [repos EXCEPT ![repoName].fs = r.fs], err |-> r.err]
      Fail(err) == [fs |-> st, repos |-> repos, err |-> err]
  IN IF ~rc.Write THEN Fail(Err("ErrRegistryWriteIsNotAllowed"))
     ELSE IF ~g.err.nil THEN Fail(g.err)
     ELSE IF ~root /\ repoName \notin DOMAIN repos THEN Fail(Err("ErrUnknownRepo"))
     ELSE IF ~n.err.nil THEN Fail(n.err)
     ELSE IF ~m.err.nil THEN Out(m)
     ELSE Out(w)

\* the names a registry is initialized with and the archives uploaded
RegistryNames == {"acme", "emca"}
UploadBodies == {Reader(<<1>>, NilErr)}
\* the RegistryManifest struct read back from shop.json
RegistryManifests ==
  {[ApiVersion |-> LatestVersion, Name |-> n,
    RootRepo |-> UnmarshalRepositoryManifest(RepositoryManifestDoc), Repos |-> <<>>,
    UpdatedAt |-> ZeroTime] : n \in RegistryNames}

Initialize ==
  \E name \in RegistryNames, now \in Now :
    LET r == RegistryImpl_Initialize(cfg, fs, name, now)
    IN /\ nops < MaxOps
       /\ fs' = r.fs
       /\ last' = Call("Initialize", "", "", "", "", r.err) @@ [name |-> name]
       /\ nops' = nops + 1
       /\ UNCHANGED <<cfg, tagCallsNil, teeVars, arcVars, pureVars>>

PutManifest ==
  \E manifest \in RegistryManifests, now \in Now :
    LET r == RegistryImpl_PutManifest(cfg, fs, manifest, now)
    IN /\ nops < MaxOps
       /\ fs' = r.fs
       /\ last' = Call("PutManifest", "", "", "", "", r.err)
       /\ nops' = nops + 1
       /\ UNCHANGED <<cfg, tagCallsNil, teeVars, arcVars, pureVars>>

UploadPackageInstance ==
  \E name \in PackageNames, id \in InstanceIds, body \in UploadBodies, now \in Now :
    LET r == RegistryImpl_UploadPackageInstance(cfg, fs, repositories, name, id, body, now)
    IN /\ nops < MaxOps
       /\ fs' = r.fs
       /\ last' = Call("UploadPackageInstance", name, "", "", id, r.err)
       /\ nops' = nops + 1
       /\ UNCHANGED <<cfg, tagCallsNil, teeVars, arcVars, pureVars>>

\* number of calls in one behaviour of all ten operations
MaxGateOps == 2

\* Every operation of the registry that changes it
NextFull ==
  \/ nops < MaxGateOps /\ Initialize
  \/ nops < MaxGateOps /\ PutManifest
  \/ nops < MaxGateOps /\ UploadPackageInstance
  \/ nops < MaxGateOps /\ PutPackage
  \/ nops < MaxGateOps /\ PutPackageInstanceInfo
  \/ nops < MaxGateOps /\ DeletePackageInstanceInfo
  \/ nops < MaxGateOps /\ PutPackageInstanceTag
  \/ nops < MaxGateOps /\ DeletePackageInstanceTag
  \/ nops < MaxGateOps /\ PutPackageReference
  \/ nops < MaxGateOps /\ DeletePackageReference

SpecFull == Init /\ [][NextFull]_vars

AdminOps ==
  {"Initialize", "PutManifest", "PutPackage", "DeletePackageInstanceInfo",
   "DeletePackageInstanceTag", "DeletePackageReference"}
WriteOps ==
  {"UploadPackageInstance", "PutPackageInstanceInfo", "PutPackageInstanceTag",
   "PutPackageReference"}

\* C13: a call of an operation whose tier is disabled (admin for Initialize,
\* PutManifest, PutPackage and the three Delete operations, write for
\* UploadPackageInstance and the three other Put operations) returns the
\* permission error of that tier and leaves the storage as it was.
C13_RegistryPermissionGate ==
  [][ (nops' = nops + 1) =>
        /\ (last'.op \in AdminOps /\ ~cfg.Admin) =>
             (last'.err = Err("ErrRegistryAdminIsNotAllowed") /\ fs' = fs)
        /\ (last'.op \in WriteOps /\ ~cfg.Write) =>
             (last'.err = Err("ErrRegistryWriteIsNotAllowed") /\ fs' = fs) ]_vars

\* a refused upload on a registry whose repository would have accepted it,
\* after the storage was changed by an earlier call
C13_Witness ==
  /\ last.op = "UploadPackageInstance"
  /\ ~cfg.Write /\ cfg.Admin /\ cfg.RootRepo.Write
  /\ last.err = Err("ErrRegistryWriteIsNotAllowed")
  /\ fs # InitialFS

(***************************************************************************)
(* The root repository called directly: cfg.RootRepo is its                *)
(* RepositoryConfig, fs its backend.                                       *)
(***************************************************************************)
RepoKeys == {CasKey(id) : id \in InstanceIds} \cup {Join(<<RepositoryManifestKey>>)}
RepoPrefixes == {Join(<<RegistryCASPrefix>>), Join(<<RegistryPackagesPrefix, "latest">>)}
RepoDocs == {RepositoryManifestDoc}

RepoPut ==
  \E key \in RepoKeys, body \in UploadBodies :
    LET r == Repo_Put(fs, key, body)
    IN /\ nops < MaxOps
       /\ fs' = r.fs
       /\ last' = Call("Put", "", "", "", "", r.err)
       /\ nops' = nops + 1
       /\ UNCHANGED <<cfg, tagCallsNil, teeVars, arcVars, pureVars>>

RepoPutJSON ==
  \E key \in RepoKeys, doc \in RepoDocs :
    LET r == Repo_PutJSON(cfg.RootRepo, fs, key, doc)
    IN /\ nops < MaxOps
       /\ fs' = r.fs
       /\ last' = Call("PutJSON", "", "", "", "", r.err)
       /\ nops' = nops + 1
       /\ UNCHANGED <<cfg, tagCallsNil, teeVars, arcVars, pureVars>>

RepoEnsurePrefix ==
  \E prefix \in RepoPrefixes :
    LET r == Repo_EnsurePrefix(cfg.RootRepo, fs, prefix)
    IN /\ nops < MaxOps
       /\ fs' = r.fs
       /\ last' = Call("EnsurePrefix", "", "", "", "", r.err)
       /\ nops' = nops + 1
       /\ UNCHANGED <<cfg, tagCallsNil, teeVars, arcVars, pureVars>>

RepoDelete ==
  \E key \in RepoKeys \cup RepoPrefixes :
    LET r == Repo_Delete(cfg.RootRepo, fs, key)
    IN /\ nops < MaxOps
       /\ fs' = r.fs
       /\ last' = Call("Delete", "", "", "", "", r.err)
       /\ nops' = nops + 1
       /\ UNCHANGED <<cfg, tagCallsNil, teeVars, arcVars, pureVars>>

RepoPutManifest ==
  \E name \in RegistryNames, now \in Now :
    LET manifest == [UnmarshalRepositoryManifest(RepositoryManifestDoc) EXCEPT !.Name = name]
        r == Repo_PutManifest(cfg.RootRepo, fs, manifest, now)
    IN /\ nops < MaxOps
       /\ fs' = r.fs
       /\ last' = Call("PutManifest", "", "", "", "", r.err)
       /\ nops' = nops + 1
       /\ UNCHANGED <<cfg, tagCallsNil, teeVars, arcVars, pureVars>>

NextRepo ==
  \/ RepoPut
  \/ RepoPutJSON
  \/ RepoEnsurePrefix
  \/ RepoDelete
  \/ RepoPutManifest

SpecRepo == Init /\ [][NextRepo]_vars

RepoPermissionErrors == {Err("ErrRepoWriteIsNotAllowed"), Err("ErrRepoAdminIsNotAllowed")}

\* C14: on a repository whose write tier is disabled every mutating call (Put,
\* PutJSON, EnsurePrefix, Delete, PutManifest) returns a permission error and
\* leaves the backend as it was; PutManifest does so too when the admin tier
\* is disabled.
C14_RepositoryPermissionGate ==
  [][ (nops' = nops + 1) =>
        /\ ~cfg.RootRepo.Write => (last'.err \in RepoPermissionErrors /\ fs' = fs)
        /\ (last'.op = "PutManifest" /\ ~cfg.RootRepo.Admin) =>
             (last'.err \in RepoPermissionErrors /\ fs' = fs) ]_vars

(***************************************************************************)
(* Registry calls with malformed arguments.                                *)
(***************************************************************************)
\* number of calls with malformed arguments in one behaviour
MaxBadOps == 2

PutPackageMalformed ==
  \E name \in BadPackageNames, now \in Now :
    LET r == RegistryImpl_PutPackage(cfg, fs, Package(name, "", "", now), now)
    IN /\ nops < MaxBadOps
       /\ fs' = r.fs
       /\ last' = Call("PutPackage", name, "", "", "", r.err)
       /\ nops' = nops + 1
       /\ UNCHANGED <<cfg, tagCallsNil, teeVars, arcVars, pureVars>>

UploadPackageInstanceMalformed ==
  \E name \in PackageNames \cup BadPackageNames, id \in InstanceIds \cup BadInstanceIds,
     body \in UploadBodies, now \in Now :
    LET r == RegistryImpl_UploadPackageInstance(cfg, fs, repositories, name, id, body, now)
    IN /\ name \in BadPackageNames \/ id \in BadInstanceIds
       /\ nops < MaxBadOps
       /\ fs' = r.fs
       /\ last' = Call("UploadPackageInstance", name, "", "", id, r.err)
       /\ nops' = nops + 1
       /\ UNCHANGED <<cfg, tagCallsNil, teeVars, arcVars, pureVars>>

PutPackageInstanceInfoMalformed ==
  \E pkg \in PackageNames \cup BadPackageNames, id \in InstanceIds \cup BadInstanceIds,
     now \in Now :
    LET r == RegistryImpl_PutPackageInstanceInfo(cfg, fs, Instance(pkg, id, now), now)
    IN /\ pkg \in BadPackageNames \/ id \in BadInstanceIds
       /\ nops < MaxBadOps
       /\ fs' = r.fs
       /\ last' = Call("PutPackageInstanceInfo", pkg, "", "", id, r.err)
       /\ nops' = nops + 1
       /\ UNCHANGED <<cfg, tagCallsNil, teeVars, arcVars, pureVars>>

PutPackageInstanceTagMalformed ==
  \E pkg \in PackageNames \cup BadPackageNames, key \in TagKeys \cup BadTagKeys,
     value \in TagValues \cup BadTagValues, id \in InstanceIds \cup BadInstanceIds,
     now \in Now :
    LET r == RegistryImpl_PutPackageInstanceTag(cfg, fs, Tag(pkg, key, value, id, now), now)
    IN /\ \/ pkg \in BadPackageNames \/ key \in BadTagKeys
          \/ value \in BadTagValues \/ id \in BadInstanceIds
       /\ nops < MaxBadOps
       /\ fs' = r.fs
       /\ last' = Call("PutPackageInstanceTag", pkg, key, value, id, r.err)
       /\ nops' = nops + 1
       /\ tagCallsNil' = (tagCallsNil /\ r.err.nil)
       /\ UNCHANGED <<cfg, teeVars, arcVars, pureVars>>

PutPackageReferenceMalformed ==
  \E pkg \in PackageNames \cup BadPackageNames, name \in RefNames \cup BadRefNames,
     id \in InstanceIds \cup BadInstanceIds, now \in Now :
    LET r == RegistryImpl_PutPackageReference(cfg, fs, Reference(pkg, name, id, now))
    IN /\ pkg \in BadPackageNames \/ name \in BadRefNames \/ id \in BadInstanceIds
       /\ nops < MaxBadOps
       /\ fs' = r.fs
       /\ last' = Call("PutPackageReference", pkg, name, "", id, r.err)
       /\ nops' = nops + 1
       /\ UNCHANGED <<cfg, tagCallsNil, teeVars, arcVars, pureVars>>

NextMalformed ==
  \/ PutPackage
  \/ PutPackageMalformed
  \/ UploadPackageInstanceMalformed
  \/ PutPackageInstanceInfoMalformed
  \/ PutPackageInstanceTagMalformed
  \/ PutPackageReferenceMalformed

\* a registry and a root repository that permit every operation
InitMalformed == Init /\ cfg.Admin /\ cfg.Write /\ cfg.RootRepo.Write

SpecMalformed == InitMalformed /\ [][NextMalformed]_vars

\* the validation errors of the malformed fields of the call c
MalformedErrors(c) ==
  (IF c.pkg \in BadPackageNames THEN {Err("ErrInvalidPackageName")} ELSE {})
    \cup (IF c.id \in BadInstanceIds THEN {Err("ErrInvalidInstanceId")} ELSE {})
    \cup (IF c.op = "PutPackageInstanceTag" /\ c.key \in BadTagKeys
          THEN {Err("ErrInvalidTagName")} ELSE {})
    \cup (IF c.value \in BadTagValues THEN {Err("ErrInvalidTagValue")} ELSE {})
    \cup (IF c.op = "PutPackageReference" /\ c.key \in BadRefNames
          THEN {Err("ErrInvalidReferenceName")} ELSE {})

\* C15: PutPackage, UploadPackageInstance, PutPackageInstanceInfo,
\* PutPackageInstanceTag and PutPackageReference, called with a malformed package name, instance id, tag key, tag
\* value or reference name, return the validation error of a malformed field
\* and leave the storage as it was.
C15_ValidationBeforeIO ==
  [][ (nops' = nops + 1 /\ MalformedErrors(last') # {}) =>
        (last'.err \in MalformedErrors(last') /\ fs' = fs) ]_vars

(***************************************************************************)
(* The validators applied to every short string over a small alphabet and  *)
(* to some longer names.                                                   *)
(***************************************************************************)
\* length of the enumerated strings
MaxNameLen == 3
NameAlphabet == {"a", "9", ".", "_", "-", "@", "/"}
NameExamples ==
  {"a/b-c.d9", "a..b", "a//b", "a_b", "v1.0-rc", "user@host", "git_revision", "Tools/Clang"}

RECURSIVE NamesOfLen(_)
NamesOfLen(n) ==
  IF n = 0 THEN {""} ELSE {s \o c : s \in NamesOfLen(n - 1), c \in NameAlphabet}
Names == UNION {NamesOfLen(n) : n \in 0..MaxNameLen} \cup NameExamples

ValidatorResult(fn, ok) == [fn |-> fn, ok |-> ok]

CallIsValidPackageName ==
  /\ vResult' = ValidatorResult("IsValidPackageName", IsValidPackageName(vName))
  /\ UNCHANGED <<regVars, teeVars, arcVars, tarVars, auxVars, vName, nArgs, nResult>>

CallIsValidTagName ==
  /\ vResult' = ValidatorResult("IsValidTagName", IsValidTagName(vName))
  /\ UNCHANGED <<regVars, teeVars, arcVars, tarVars, auxVars, vName, nArgs, nResult>>

CallIsValidTagValue ==
  /\ vResult' = ValidatorResult("IsValidTagValue", IsValidTagValue(vName))
  /\ UNCHANGED <<regVars, teeVars, arcVars, tarVars, auxVars, vName, nArgs, nResult>>

CallIsValidRefName ==
  /\ vResult' = ValidatorResult("IsValidRefName", IsValidRefName(vName))
  /\ UNCHANGED <<regVars, teeVars, arcVars, tarVars, auxVars, vName, nArgs, nResult>>

InitNames ==
  /\ RegistryIdle /\ TeeIdle /\ ArchiveOff /\ TarIdle /\ AuxIdle
  /\ vName \in Names
  /\ vResult = <<>> /\ nArgs = <<>> /\ nResult = <<>>

NextNames ==
  \/ CallIsValidPackageName
  \/ CallIsValidTagName
  \/ CallIsValidTagValue
  \/ CallIsValidRefName

SpecNames == InitNames /\ [][NextNames]_vars

IsAlnum(r) == IsLetter(r) \/ IsDigit(r)
IsPunct(r) == r = "." \/ r = "_" \/ r = "-"
Runes(v) == {RuneAt(v, i) : i \in 0..(Len(v) - 1)}
\* segment = [A-Za-z]([A-Za-z0-9._-]*[A-Za-z0-9])?
InSegmentGrammar(s) ==
  /\ s # ""
  /\ IsLetter(RuneAt(s, 0))
  /\ \A r \in Runes(s) : IsAlnum(r) \/ IsPunct(r)
  /\ IsAlnum(RuneAt(s, Len(s) - 1))
\* segment ('/' segment)*
InPackageNameGrammar(name) ==
  LET segs == SegmentsFrom(name, 1, "")
  IN \A k \in 1..Len(segs) : InSegmentGrammar(segs[k])
\* [A-Za-z0-9_@-]([A-Za-z0-9._@-]*[A-Za-z0-9_@-])?
InTagValueGrammar(v) ==
  LET Edge(r) == IsAlnum(r) \/ r = "_" \/ r = "@" \/ r = "-"
  IN /\ v # ""
     /\ Edge(RuneAt(v, 0)) /\ Edge(RuneAt(v, Len(v) - 1))
     /\ \A r \in Runes(v) : Edge(r) \/ r = "."
\* a letter first, letters, digits, '.', '_', '-' after it, no punctuation last
InTagNameGrammar(v) ==
  /\ v # ""
  /\ IsLetter(RuneAt(v, 0))
  /\ \A r \in Runes(v) : IsAlnum(r) \/ IsPunct(r)
  /\ ~IsPunct(RuneAt(v, Len(v) - 1))

Validated(fn) == vResult # <<>> /\ vResult.fn = fn

\* C16: IsValidPackageName returns true exactly for the strings of the
\* grammar segment ('/' segment)* with segment =
\* [A-Za-z]([A-Za-z0-9._-]*[A-Za-z0-9])?, which has a/b-c.d9, a.b and a..b
\* and has neither the empty string nor /a, a/, a//b, .a, a. nor a segment
\* that starts with a digit.
C16_PackageNameGrammar ==
  Validated("IsValidPackageName") => (vResult.ok = InPackageNameGrammar(vName))

\* C17: IsValidTagValue returns true exactly for the non-empty strings whose
\* first and last characters are in [A-Za-z0-9_@-] and whose interior
\* characters are in [A-Za-z0-9._@-]: a_b, v1.0-rc and user@host are
\* accepted, a value that starts or ends with '.' is not.
C17_TagValueGrammar ==
  Validated("IsValidTagValue") => (vResult.ok = InTagValueGrammar(vName))

\* C18: IsValidTagName returns true exactly for the non-empty strings that
\* start with a letter, contain only letters, digits, '.', '_' and '-' and do
\* not end with '.', '_' or '-'; IsValidRefName returns what IsValidTagName
\* returns on every input.
C18_TagNameGrammar ==
  /\ Validated("IsValidTagName") => (vResult.ok = InTagNameGrammar(vName))
  /\ Validated("IsValidRefName") =>
       (vResult.ok = InTagNameGrammar(vName) /\ vResult.ok = IsValidTagName(vName))

\* a reference name with interior punctuation and a digit was accepted
C18_Witness ==
  /\ Validated("IsValidRefName") /\ vResult.ok
  /\ vName = "a-9"

(***************************************************************************)
(* NewTag applied to valid and malformed arguments.                        *)
(***************************************************************************)
NewTagArgs ==
  [pkg : {"tools/clang", "latest"} \cup BadPackageNames,
   key : {"git_revision", "rev"} \cup BadTagKeys,
   value : {"deadbeef", "a.b"} \cup BadTagValues,
   id : {IdA} \cup BadInstanceIds,
   now : Now]

CallNewTag ==
  /\ nResult = <<>>
  /\ nResult' = <<NewTag(nArgs.pkg, nArgs.key, nArgs.value, nArgs.id, nArgs.now)>>
  /\ UNCHANGED <<regVars, teeVars, arcVars, tarVars, auxVars, vName, vResult, nArgs>>

InitNewTag ==
  /\ RegistryIdle /\ TeeIdle /\ ArchiveOff /\ TarIdle /\ AuxIdle
  /\ vName = "" /\ vResult = <<>>
  /\ nArgs \in NewTagArgs
  /\ nResult = <<>>

NextNewTag == CallNewTag

SpecNewTag == InitNewTag /\ [][NextNewTag]_vars

\* the error of the first field of a that is not in its grammar, in the
\* order package, key, value, id
FirstInvalidField(a) ==
  IF ~InPackageNameGrammar(a.pkg) THEN Err("ErrInvalidPackageName")
  ELSE IF ~InTagNameGrammar(a.key) THEN Err("ErrInvalidTagName")
  ELSE IF ~InTagValueGrammar(a.value) THEN Err("ErrInvalidTagValue")
  ELSE IF ~IsValidInstanceId(a.id) THEN Err("ErrInvalidInstanceId")
  ELSE NilErr

\* C19: NewTag(pkg, key, value, id) returns a Tag of its arguments and a nil
\* error exactly when pkg is a valid package name, key a valid tag name,
\* value a valid tag value and id a valid instance id, and the error of the
\* first failing field in that order otherwise; NewTag("tools/clang",
\* "git_revision", "deadbeef", a 40 hex digit id) succeeds.
C19_NewTagValidatesInOrder ==
  nResult # <<>> =>
    /\ nResult[1].err = FirstInvalidField(nArgs)
    /\ nResult[1].err.nil =>
         nResult[1].tag = Tag(nArgs.pkg, nArgs.key, nArgs.value, nArgs.id, nArgs.now)

(***************************************************************************)
(* RegistryImpl.ListPackages over packages of which one is the parent of   *)
(* the others.                                                             *)
(***************************************************************************)
\* filepath.Join(c.prefix, entry.Key) as a name
JoinName(prefix, key) == IF prefix = "" THEN key ELSE prefix \o "/" \o key

\* the PackageOrPrefix values; Package is <<>> for a nil pointer
PackageItem(manifest) == [Package |-> manifest, Prefix |-> ""]
PrefixItem(key) == [Package |-> <<>>, Prefix |-> key]

\* SliceCursor.GetNext when i - 1 items have been taken
SliceGetNext(items, i) ==
  IF i <= Len(items) THEN [item |-> <<items[i]>>, err |-> NilErr, next |-> i + 1]
  ELSE [item |-> <<>>, err |-> NilErr, next |-> i]

\* registryListPackagesCursor.GetNext from entry i of the listing
PackagesGetNext(st, prefix, ord, i) ==
  LET RECURSIVE Loop(_)
      Loop(j) ==
        IF j > Len(ord) THEN [item |-> <<>>, err |-> NilErr, next |-> j]
        ELSE IF ~ord[j].IsPrefix THEN Loop(j + 1)
        ELSE LET key == JoinName(prefix, ord[j].Key)
                 isPackage == RegistryImpl_isPackage(st, key)
                 g == RegistryImpl_GetPackage(st, key)
             IN IF ~isPackage.err.nil THEN [item |-> <<>>, err |-> isPackage.err, next |-> j + 1]
                ELSE IF ~isPackage.ok THEN [item |-> <<PrefixItem(key)>>, err |-> NilErr, next |-> j + 1]
                ELSE IF ~g.err.nil THEN [item |-> <<>>, err |-> g.err, next |-> j + 1]
                ELSE [item |-> <<PackageItem(g.manifest)>>, err |-> NilErr, next |-> j + 1]
  IN Loop(i)

\* A ListPackages whose cursor for a package holds no item
ListPackages_EmptySlice(st, prefix) ==
  LET isPackage == RegistryImpl_isPackage(st, prefix)
      g == RegistryImpl_GetPackage(st, prefix)
      l == Repo_List(st, Join(<<RegistryPackagesPrefix, prefix>>))
  IN IF ~isPackage.err.nil THEN {[items |-> <<>>, err |-> isPackage.err]}
     ELSE IF isPackage.ok
     THEN IF ~g.err.nil THEN {[items |-> <<>>, err |-> g.err]}
          ELSE LET items == <<>>
               IN {Drain([i \in 1..(Len(items) + 1) |-> SliceGetNext(items, i)], 1)}
     ELSE IF ~l.err.nil THEN {[items |-> <<>>, err |-> l.err]}
     ELSE {Drain([i \in 1..(Len(ord) + 1) |-> PackagesGetNext(st, prefix, ord, i)], 1)
             @@ [ord |-> ord] : ord \in Orders(l.entries)}

\* RegistryImpl.ListPackages, drained, for each order of the listing
ListPackages(st, prefix) ==
  LET isPackage == RegistryImpl_isPackage(st, prefix)
      g == RegistryImpl_GetPackage(st, prefix)
      l == Repo_List(st, Join(<<RegistryPackagesPrefix, prefix>>))
  IN IF ~isPackage.err.nil THEN {[items |-> <<>>, err |-> isPackage.err]}
     ELSE IF isPackage.ok
     THEN IF ~g.err.nil THEN {[items |-> <<>>, err |-> g.err]}
          ELSE LET items == <<PackageItem(g.manifest)>>
               IN {Drain([i \in 1..(Len(items) + 1) |-> SliceGetNext(items, i)], 1)}
     ELSE IF ~l.err.nil THEN {[items |-> <<>>, err |-> l.err]}
     ELSE {Drain([i \in 1..(Len(ord) + 1) |-> PackagesGetNext(st, prefix, ord, i)], 1)
             @@ [ord |-> ord] : ord \in Orders(l.entries)}

ListPrefixes == {""} \cup NestedPackageNames

PutNestedPackage ==
  \E name \in NestedPackageNames, now \in Now :
    LET r == RegistryImpl_PutPackage(cfg, fs, Package(name, "", "", now), now)
    IN /\ nops < MaxOps
       /\ fs' = r.fs
       /\ last' = Call("PutPackage", name, "", "", "", r.err)
       /\ nops' = nops + 1
       /\ UNCHANGED <<cfg, tagCallsNil, teeVars, arcVars, pureVars>>

\* ListPackages(prefix) and the draining of its cursor
ListPackagesCall ==
  \E prefix \in ListPrefixes :
    \E d \in ListPackages(fs, prefix) :
      /\ nops < MaxOps
      /\ last' = Call("ListPackages", prefix, "", "", "", d.err)
                    @@ [items |-> d.items, ord |-> Field(d, "ord", <<>>)]
      /\ nops' = nops + 1
      /\ UNCHANGED <<cfg, fs, tagCallsNil, teeVars, arcVars, pureVars>>

NextList ==
  \/ PutNestedPackage
  \/ ListPackagesCall

SpecList == Init /\ [][NextList]_vars

\* C20: when a package manifest exists at exactly prefix, ListPackages(prefix)
\* yields one element, that package, and then is exhausted without an error,
\* whether or not packages exist under prefix/.
C20_ListPackagesOnPackage ==
  (last.op = "ListPackages" /\ IsFile(fs, PackageKey(last.pkg))) =>
    /\ last.err.nil
    /\ last.items = <<PackageItem(<<UnmarshalPackage(fs.files[PackageKey(last.pkg)])>>)>>

\* tools was listed while tools and tools/clang are both packages
C20_Witness ==
  /\ last.op = "ListPackages" /\ last.pkg = "tools"
  /\ IsFile(fs, PackageKey("tools")) /\ IsFile(fs, PackageKey("tools/clang"))
  /\ Len(last.items) = 1 /\ last.items[1].Package # <<>>
  /\ last.items[1].Package[1].Name = "tools"

\* the elements the listing ord of packages/<prefix>/ stands for: one per
\* entry that is a prefix, a package where <prefix>/<child>/package.json is a
\* manifest and the prefix <prefix>/<child> otherwise
RECURSIVE ExpectedItems(_, _, _)
ExpectedItems(st, prefix, ord) ==
  IF ord = <<>> THEN <<>>
  ELSE LET key == JoinName(prefix, Head(ord).Key)
           rest == ExpectedItems(st, prefix, Tail(ord))
       IN IF ~Head(ord).IsPrefix THEN rest
          ELSE IF IsFile(st, PackageKey(key))
          THEN <<PackageItem(<<UnmarshalPackage(st.files[PackageKey(key)])>>)>> \o rest
          ELSE <<PrefixItem(key)>> \o rest

\* C21: ListPackages(prefix) on a prefix that is not a package and whose
\* directory packages/<prefix>/ exists yields, in the order of the listing,
\* one element per child that is a prefix: the package when
\* <prefix>/<child>/package.json is a manifest and Prefix = <prefix>/<child>
\* otherwise; plain objects yield no element.
C21_ListPackagesOnPrefix ==
  LET dir == Join(<<RegistryPackagesPrefix, last.pkg>>)
  IN (last.op = "ListPackages" /\ ~IsFile(fs, PackageKey(last.pkg)) /\ IsDir(fs, dir)) =>
       /\ last.err.nil
       /\ \E ord \in Orders(FileFS_ListDir(fs, dir).entries) :
            /\ last.ord # <<>> => ord = last.ord
            /\ last.items = ExpectedItems(fs, last.pkg, ord)

(***************************************************************************)
(* The leaf cursors: ErrorCursor, SliceCursor and the cursor of            *)
(* FileFS.ListDir.                                                         *)
(***************************************************************************)
\* number of entries in a slice or a directory, and of GetNext calls
MaxEntries == 2
MaxGetNext == 4
\* the n of c.file.Readdir(n)
ReaddirCount == 100

CursorEntries ==
  {[Key |-> "a", IsPrefix |-> TRUE], [Key |-> "b", IsPrefix |-> FALSE],
   [Key |-> "c", IsPrefix |-> TRUE]}
EntrySeqs == UNION {[1..n -> CursorEntries] : n \in 0..MaxEntries}
\* the orders in which a directory of distinct entries is read
DirListings == {s \in EntrySeqs : \A i, j \in 1..Len(s) : s[i] = s[j] => i = j}

NewErrorCursor(err) == [kind |-> "ErrorCursor", error |-> err]
NewSliceCursor(items) == [kind |-> "SliceCursor", items |-> items]
\* the cursor FileFS.ListDir returns when os.Open succeeded: file is <<>> for
\* nil, else the open file: whether it is a directory and its unread entries
NewFileFSCursor(isDir, listing) ==
  [kind |-> "fileFSCursor", file |-> <<[isDir |-> isDir, unread |-> listing]>>, entries |-> <<>>]

\* (*os.File).Readdir(n) for n > 0: the entries, the error and the file after it
Readdir(f, n) ==
  IF ~f.isDir THEN [entries |-> <<>>, err |-> Err("ENOTDIR"), file |-> f]
  ELSE IF f.unread = <<>> THEN [entries |-> <<>>, err |-> Err("io.EOF"), file |-> f]
  ELSE LET k == IF Len(f.unread) < n THEN Len(f.unread) ELSE n
       IN [entries |-> SubSeq(f.unread, 1, k), err |-> NilErr,
           file |-> [f EXCEPT !.unread = SubSeq(f.unread, k + 1, Len(f.unread))]]

Result(item, err) == [item |-> item, err |-> err]

\* the error ErrorCursor.GetNext returns is the cursor itself: a struct that
\* embeds the error, with its message and neither Unwrap nor Is
ErrorCursorError(c) == [nil |-> FALSE, errs |-> c.error.errs, type |-> "ErrorCursor"]

ErrorCursor_GetNext(c) == [cur |-> c, ret |-> Result(<<>>, ErrorCursorError(c))]

SliceCursor_GetNext(c) ==
  IF Len(c.items) > 0
  THEN [cur |-> [c EXCEPT !.items = Tail(c.items)], ret |-> Result(<<Head(c.items)>>, NilErr)]
  ELSE [cur |-> c, ret |-> Result(<<>>, NilErr)]

fileFSCursor_GetNext(c) ==
  IF c.file = <<>> THEN [cur |-> c, ret |-> Result(<<>>, Err("io.EOF"))]
  ELSE LET r == Readdir(c.file[1], ReaddirCount)
           read == Len(c.entries) = 0
           entries == IF read THEN r.entries ELSE c.entries
           failed == read /\ ~r.err.nil
           err == IF ~read \/ r.err = Err("io.EOF") THEN NilErr ELSE r.err
           file == IF failed THEN <<>> ELSE IF read THEN <<r.file>> ELSE c.file
       IN IF Len(entries) = 0
          THEN [cur |-> [c EXCEPT !.file = file, !.entries = entries], ret |-> Result(<<>>, err)]
          ELSE [cur |-> [c EXCEPT !.file = file, !.entries = Tail(entries)],
                ret |-> Result(<<Head(entries)>>, err)]

Cursor_GetNext(c) ==
  CASE c.kind = "ErrorCursor" -> ErrorCursor_GetNext(c)
    [] c.kind = "SliceCursor" -> SliceCursor_GetNext(c)
    [] c.kind = "fileFSCursor" -> fileFSCursor_GetNext(c)

LeafCursors ==
  {NewErrorCursor(Err(e)) : e \in {"ENOENT", "EACCES"}}
    \cup {NewSliceCursor(items) : items \in EntrySeqs}
    \cup {NewFileFSCursor(TRUE, listing) : listing \in DirListings}
    \cup {NewFileFSCursor(FALSE, <<>>)}

CursorGetNext ==
  /\ Len(cRets) < MaxGetNext
  /\ cur' = Cursor_GetNext(cur).cur
  /\ cRets' = Append(cRets, Cursor_GetNext(cur).ret)
  /\ UNCHANGED <<regVars, teeVars, arcVars, tarVars, valVars, repositories>>

InitCursor ==
  /\ RegistryIdle /\ TeeIdle /\ ArchiveOff /\ TarIdle /\ ValIdle
  /\ repositories = <<>>
  /\ cur \in LeafCursors
  /\ cRets = <<>>

NextCursor == CursorGetNext

SpecCursor == InitCursor /\ [][NextCursor]_vars

\* C22: once GetNext of an ErrorCursor, a SliceCursor or the cursor of
\* FileFS.ListDir has returned exhaustion (nil, nil) or an error, every later
\* GetNext returns that same result.
C22_CursorTerminalSticky ==
  \A i, j \in 1..Len(cRets) :
    (i < j /\ cRets[i].item = <<>>) => cRets[j] = cRets[i]

(***************************************************************************)
(* Secondary repositories: packages that declare a repository, and uploads *)
(* that stream an archive into the repository the package declares         *)
(***************************************************************************)
\* number of calls in one behaviour of the upload operations
MaxUploadOps == 3

\* the repository registered on the client besides the root repository, and
\* the names a package manifest declares ("" is the root repository, "ghost"
\* is registered nowhere)
SecondaryName == "blobs"
UploadRepoNames == {"", SecondaryName, "ghost"}

\* the readers handed to an upload: one delivers the archive, one fails
\* after the first byte
UploadReaders == {Reader(<<1, 2>>, NilErr), Reader(<<1>>, Err("EIO"))}

SecondaryManifestDoc ==
  [api_version |-> LatestVersion, url |-> "file:///blobs", name |-> SecondaryName,
   updated_at |-> 0]
SecondaryFS ==
  [dirs |-> {<<>>}, files |-> (<<RepositoryManifestKey>> :> SecondaryManifestDoc)]
\* shop.json of a registry that lists the secondary repository
UploadRootFS ==
  [InitialFS EXCEPT !.files[<<RegistryManifestKey>>] =
     RegistryManifestDoc @@ [repos |-> (SecondaryName :> SecondaryManifestDoc)]]

\* NewRegistry: one repository per entry of manifest.Repos, under the tiers
\* its RepositoryConfig grants
NewRegistry_repositories(manifest, repoCfgs) ==
  [key \in DOMAIN Field(manifest, "repos", <<>>) |->
     [cfg |-> repoCfgs[key], fs |-> SecondaryFS]]

InitUpload ==
  /\ cfg \in RegistryConfigs
  /\ cfg.Admin
  /\ fs = UploadRootFS
  /\ \E repoCfgs \in [{SecondaryName} -> [Admin : BOOLEAN, Write : BOOLEAN]] :
       repositories = NewRegistry_repositories(fs.files[<<RegistryManifestKey>>], repoCfgs)
  /\ last = Call("NewRegistry", "", "", "", "", NilErr)
  /\ nops = 0
  /\ tagCallsNil = TRUE
  /\ TeeIdle
  /\ ArchiveOff
  /\ TarIdle
  /\ ValIdle
  /\ cur = <<>>
  /\ cRets = <<>>

\* PutPackage of a package that declares a repository
PutPackageInRepo ==
  \E name \in PackageNames, repo \in UploadRepoNames, now \in Now :
    LET r == RegistryImpl_PutPackage(cfg, fs, Package(name, "", repo, now), now)
    IN /\ nops < MaxUploadOps
       /\ fs' = r.fs
       /\ last' = Call("PutPackage", name, "", "", "", r.err) @@ [repo |-> repo]
       /\ nops' = nops + 1
       /\ UNCHANGED <<cfg, tagCallsNil, teeVars, arcVars, pureVars>>

\* UploadPackageInstance on a registry with a secondary repository
UploadPackageInstanceToRepo ==
  \E name \in PackageNames, id \in InstanceIds, body \in UploadReaders, now \in Now :
    LET r == RegistryImpl_UploadPackageInstance(cfg, fs, repositories, name, id, body, now)
    IN /\ nops < MaxUploadOps
       /\ fs' = r.fs
       /\ repositories' = r.repos
       /\ last' = Call("UploadPackageInstance", name, "", "", id, r.err) @@ [body |-> body]
       /\ nops' = nops + 1
       /\ UNCHANGED <<cfg, tagCallsNil, teeVars, arcVars, tarVars, valVars, cur, cRets>>

NextUpload ==
  \/ PutPackageInRepo
  \/ UploadPackageInstanceToRepo

SpecUpload == InitUpload /\ [][NextUpload]_vars

\* the repository the stored manifest of a package declares
DeclaredRepo(st, name) ==
  IF IsFile(st, PackageKey(name)) THEN Field(st.files[PackageKey(name)], "repo", "") ELSE ""
\* the object an upload of id creates
ArchiveKey(id) == Join(<<RegistryCASPrefix, id \o RegistryCASArchiveExtension>>)
UploadStep == nops' = nops + 1 /\ last'.op = "UploadPackageInstance"

C24_UploadFrame ==
  [][ (UploadStep /\ last'.err.nil) =>
        LET repo == DeclaredRepo(fs, last'.pkg)
            key == ArchiveKey(last'.id)
            Added(before, after) ==
              /\ ~IsFile(before, key)
              /\ after.files = (key :> [blob |-> last'.body.bytes]) @@ before.files
        IN /\ IsFile(fs, PackageKey(last'.pkg))
           /\ IF repo = ""
              THEN Added(fs, fs') /\ repositories' = repositories
              ELSE /\ repo \in DOMAIN repositories
                   /\ Added(repositories[repo].fs, repositories'[repo].fs)
                   /\ fs' = fs
                   /\ \A other \in DOMAIN repositories \ {repo} :
                        repositories'[other] = repositories[other] ]_vars

\* a successful upload into the secondary repository: the archive is there
\* and the root repository holds no object of that key
C24_Witness ==
  /\ last.op = "UploadPackageInstance"
  /\ last.err.nil
  /\ DeclaredRepo(fs, last.pkg) = SecondaryName
  /\ IsFile(repositories[SecondaryName].fs, ArchiveKey(last.id))
  /\ repositories[SecondaryName].fs.files[ArchiveKey(last.id)] = [blob |-> last.body.bytes]
  /\ ~IsFile(fs, ArchiveKey(last.id))

\* the storage an upload for a package goes to
TargetFS(st, repos, name) ==
  IF DeclaredRepo(st, name) = "" THEN st ELSE repos[DeclaredRepo(st, name)].fs

\* C25: an upload that repeats the upload before it (same package, same id),
\* which completed or failed part-way through streaming, returns nil and
\* leaves cas/<id>.tgz holding the bytes of its reader
C25_UploadRetry ==
  [][ (/\ UploadStep
       /\ last.op = "UploadPackageInstance"
       /\ last.pkg = last'.pkg /\ last.id = last'.id
       /\ last'.body.err.nil
       /\ DeclaredRepo(fs, last.pkg) \in {""} \cup DOMAIN repositories
       /\ IsFile(TargetFS(fs, repositories, last.pkg), ArchiveKey(last.id))
       /\ last.err.nil \/ ~last.body.err.nil) =>
        /\ last'.err.nil
        /\ TargetFS(fs', repositories', last'.pkg).files[ArchiveKey(last'.id)]
             = [blob |-> last'.body.bytes] ]_vars

(***************************************************************************)
(* Initialize on a root repository whose manifest is rewritten or deleted  *)
(***************************************************************************)
\* number of calls in one behaviour of the initialization operations
MaxInitOps == 3

NextInitialize ==
  \/ nops < MaxInitOps /\ Initialize
  \/ nops < MaxInitOps /\ RepoPutManifest
  \/ nops < MaxInitOps /\ RepoDelete

SpecInitialize == Init /\ [][NextInitialize]_vars

InitializeStep == nops' = nops + 1 /\ last'.op = "Initialize"

\* C26: on an admin-enabled registry, an Initialize(name) that returns nil
\* over a root repository holding a repository manifest leaves at shop.json a
\* registry manifest with that name, the latest api version and the
\* repository's manifest as root_repo, and the prefixes packages and cas
\* exist; when the repository manifest cannot be read, Initialize returns the
\* error of the read and the repository is unchanged
C26_InitializeEffect ==
  [][ (InitializeStep /\ cfg.Admin) =>
        LET repoKey == Join(<<RepositoryManifestKey>>)
            key == Join(<<RegistryManifestKey>>)
        IN /\ (IsFile(fs, repoKey) /\ last'.err.nil) =>
                /\ IsFile(fs', key)
                /\ Field(fs'.files[key], "name", "") = last'.name
                /\ Field(fs'.files[key], "api_version", "") = LatestVersion
                /\ UnmarshalRepositoryManifest(Field(fs'.files[key], "root_repo", <<>>))
                     = UnmarshalRepositoryManifest(fs.files[repoKey])
                /\ IsDir(fs', Join(<<RegistryPackagesPrefix>>))
                /\ IsDir(fs', Join(<<RegistryCASPrefix>>))
           /\ ~IsFile(fs, repoKey) =>
                /\ last'.err = FileFS_Read(fs, repoKey).err
                /\ ~last'.err.nil
                /\ fs' = fs ]_vars

\* an Initialize that returned nil after the repository manifest was given
\* another name: shop.json carries the new registry name and the renamed
\* repository manifest
C26_Witness ==
  /\ last.op = "Initialize"
  /\ last.err.nil
  /\ last.name = "emca"
  /\ Field(fs.files[Join(<<RegistryManifestKey>>)], "name", "") = "emca"
  /\ Field(Field(fs.files[Join(<<RegistryManifestKey>>)], "root_repo", <<>>), "name", "")
       \in RegistryNames

(***************************************************************************)
(* The commands of the command line, from repository to tagged instance:   *)
(* every command constructs the registry first (cli/registry.go,           *)
(* cli/package.go)                                                         *)
(***************************************************************************)
RegistryImpl_GetManifest(st) ==
  LET r == Repo_GetJSON(st, Join(<<RegistryManifestKey>>))
  IN IF r.err.nil THEN [manifest |-> <<r.data>>, err |-> NilErr]
     ELSE [manifest |-> <<>>, err |-> r.err]

\* NewRegistry over the file backend: NewRepository returns no error, the
\* registry manifest must be readable
NewRegistry(st) == [err |-> RegistryImpl_GetManifest(st).err]

\* a call on the registry a command has constructed, or the error of the
\* construction
OnRegistry(st, r) ==
  IF NewRegistry(st).err.nil THEN [fs |-> r.fs, err |-> r.err]
  ELSE [fs |-> st, err |-> NewRegistry(st).err]

\* a file-backed repository that holds its own manifest and nothing else
EmptyRepositoryFS ==
  [dirs |-> {<<>>}, files |-> (<<RepositoryManifestKey>> :> RepositoryManifestDoc)]

\* the configuration RegistryInitCommand.Run builds
CommandConfig ==
  [Admin |-> TRUE, Write |-> TRUE, RootRepo |-> [Admin |-> TRUE, Write |-> TRUE]]

Step(op, pkg, key, value, id, err) ==
  Call(op, pkg, key, value, id, err) @@ [origin |-> last.origin, items |-> <<>>]

\* the tiers of the later commands come from the configuration file
InitScenario ==
  /\ cfg \in RegistryConfigs
  /\ fs \in {EmptyRepositoryFS, InitialFS}
  /\ last = Call("", "", "", "", "", NilErr)
              @@ [origin |-> IF fs = EmptyRepositoryFS THEN "empty" ELSE "initialized",
                  items |-> <<>>]
  /\ nops = 0
  /\ tagCallsNil = TRUE
  /\ TeeIdle
  /\ ArchiveOff
  /\ PureIdle

ScenarioNewRegistry ==
  /\ nops = 0
  /\ last' = Step("NewRegistry", "", "", "", "", NewRegistry(fs).err)
  /\ nops' = nops + 1
  /\ UNCHANGED <<cfg, fs, tagCallsNil, teeVars, arcVars, pureVars>>

ScenarioInitialize ==
  \E name \in RegistryNames, now \in Now :
    LET r == OnRegistry(fs, RegistryImpl_Initialize(cfg, fs, name, now))
    IN /\ nops = 1
       /\ fs' = r.fs
       /\ last' = Step("Initialize", "", "", "", "", r.err)
       /\ nops' = nops + 1
       /\ UNCHANGED <<cfg, tagCallsNil, teeVars, arcVars, pureVars>>

ScenarioPutPackage ==
  \E name \in PackageNames, now \in Now :
    LET r == OnRegistry(fs, RegistryImpl_PutPackage(cfg, fs, Package(name, "", "", now), now))
    IN /\ nops = 2
       /\ fs' = r.fs
       /\ last' = Step("PutPackage", name, "", "", "", r.err)
       /\ nops' = nops + 1
       /\ UNCHANGED <<cfg, tagCallsNil, teeVars, arcVars, pureVars>>

\* the archive MakeArchive wrote and the id it returned go to the upload
ScenarioUpload ==
  \E id \in InstanceIds, body \in UploadBodies, now \in Now :
    LET r == OnRegistry(fs, RegistryImpl_UploadPackageInstance(cfg, fs, repositories,
                                                              last.pkg, id, body, now))
    IN /\ nops = 3
       /\ fs' = r.fs
       /\ last' = Step("UploadPackageInstance", last.pkg, "", "", id, r.err)
       /\ nops' = nops + 1
       /\ UNCHANGED <<cfg, tagCallsNil, teeVars, arcVars, pureVars>>

ScenarioPutInstanceInfo ==
  \E now \in Now :
    LET r == OnRegistry(fs, RegistryImpl_PutPackageInstanceInfo(
                              cfg, fs, Instance(last.pkg, last.id, now), now))
    IN /\ nops = 4
       /\ fs' = r.fs
       /\ last' = Step("PutPackageInstanceInfo", last.pkg, "", "", last.id, r.err)
       /\ nops' = nops + 1
       /\ UNCHANGED <<cfg, tagCallsNil, teeVars, arcVars, pureVars>>

\* NewTag, then PutPackageInstanceTag with the tag it made
ScenarioTag ==
  \E key \in TagKeys, value \in TagValues, now \in Now :
    LET t == NewTag(last.pkg, key, value, last.id, now)
        r == IF ~t.err.nil THEN [fs |-> fs, err |-> t.err]
             ELSE RegistryImpl_PutPackageInstanceTag(cfg, fs, t.tag, now)
        o == OnRegistry(fs, r)
    IN /\ nops = 5
       /\ fs' = o.fs
       /\ last' = Step("PutPackageInstanceTag", last.pkg, key, value, last.id, o.err)
       /\ nops' = nops + 1
       /\ UNCHANGED <<cfg, tagCallsNil, teeVars, arcVars, pureVars>>

\* NewReference, then PutPackageReference with the reference it made
ScenarioReference ==
  \E name \in RefNames, now \in Now :
    LET n == NewReference(last.pkg, name, last.id, now)
        r == IF ~n.err.nil THEN [fs |-> fs, err |-> n.err]
             ELSE RegistryImpl_PutPackageReference(cfg, fs, n.ref)
        o == OnRegistry(fs, r)
    IN /\ nops = 6
       /\ fs' = o.fs
       /\ last' = Step("PutPackageReference", last.pkg, last.key, last.value, last.id, o.err)
       /\ nops' = nops + 1
       /\ UNCHANGED <<cfg, tagCallsNil, teeVars, arcVars, pureVars>>

ScenarioListByTag ==
  \E d \in ListPackageInstancesByTag(fs, [Package |-> last.pkg, Key |-> last.key,
                                          Value |-> last.value]) :
    LET err == IF NewRegistry(fs).err.nil THEN d.err ELSE NewRegistry(fs).err
        items == IF NewRegistry(fs).err.nil THEN d.items ELSE <<>>
    IN /\ nops = 7
       /\ last' = [Step("ListPackageInstancesByTag", last.pkg, last.key, last.value,
                        last.id, err) EXCEPT !.items = items]
       /\ nops' = nops + 1
       /\ UNCHANGED <<cfg, fs, tagCallsNil, teeVars, arcVars, pureVars>>

NextScenario ==
  \/ ScenarioNewRegistry
  \/ ScenarioInitialize
  \/ ScenarioPutPackage
  \/ ScenarioUpload
  \/ ScenarioPutInstanceInfo
  \/ ScenarioTag
  \/ ScenarioReference
  \/ ScenarioListByTag

SpecScenario == InitScenario /\ [][NextScenario]_vars

\* C27: starting from a repository that holds a repository manifest and no
\* registry manifest, every step of the sequence NewRegistry, Initialize,
\* PutPackage, UploadPackageInstance, PutPackageInstanceInfo, tag, reference
\* returns nil, and ListPackageInstancesByTag then returns exactly the
\* uploaded instance
C27_EndToEnd ==
  (last.origin = "empty" /\ cfg = CommandConfig) =>
    /\ last.err.nil
    /\ last.op = "ListPackageInstancesByTag" =>
         /\ Len(last.items) = 1
         /\ last.items[1].Package = last.pkg
         /\ last.items[1].Id = last.id

(***************************************************************************)
(* The "get" operations and the first GetNext of a listing, on objects     *)
(* that are absent, present, or directories                                *)
(***************************************************************************)
\* number of calls in one behaviour of the get operations
MaxGetOps == 3

\* errors.Is(err, target) for a target that is a sentinel or an errno: err or
\* an error it wraps is the target; a struct that embeds an error unwraps to
\* nothing
errors_Is(err, target) ==
  /\ ~err.nil
  /\ "type" \notin DOMAIN err
  /\ \E i \in 1..Len(err.errs) : err.errs[i] = target

\* FileFS.ListDir as a cursor: an ErrorCursor when os.Open failed, else the
\* cursor over the directory read in the order ord
FileFS_ListDirCursor(st, p, ord) ==
  LET l == FileFS_ListDir(st, p)
  IN IF ~l.err.nil THEN NewErrorCursor(l.err) ELSE NewFileFSCursor(TRUE, ord)

Got(op, pkg, name, id, path, record, err) ==
  Call(op, pkg, name, "", id, err) @@ [path |-> path, record |-> record]

GetManifestCall ==
  LET r == RegistryImpl_GetManifest(fs)
  IN /\ last' = Got("GetManifest", "", "", "", Join(<<RegistryManifestKey>>), r.manifest, r.err)
     /\ nops' = nops + 1
     /\ UNCHANGED <<cfg, fs, tagCallsNil, teeVars, arcVars, pureVars>>

GetPackageCall ==
  \E name \in NestedPackageNames :
    LET r == RegistryImpl_GetPackage(fs, name)
    IN /\ last' = Got("GetPackage", name, "", "", PackageKey(name), r.manifest, r.err)
       /\ nops' = nops + 1
       /\ UNCHANGED <<cfg, fs, tagCallsNil, teeVars, arcVars, pureVars>>

GetPackageInstanceInfoCall ==
  \E name \in PackageNames, id \in InstanceIds :
    LET r == RegistryImpl_GetPackageInstanceInfo(fs, name, id)
    IN /\ last' = Got("GetPackageInstanceInfo", name, "", id, InstanceKey(name, id),
                      r.instance, r.err)
       /\ nops' = nops + 1
       /\ UNCHANGED <<cfg, fs, tagCallsNil, teeVars, arcVars, pureVars>>

GetPackageReferenceCall ==
  \E pkg \in PackageNames, name \in RefNames :
    LET r == RegistryImpl_GetPackageReference(fs, pkg, name)
    IN /\ last' = Got("GetPackageReference", pkg, name, "", ReferenceKey(pkg, name), r.ref, r.err)
       /\ nops' = nops + 1
       /\ UNCHANGED <<cfg, fs, tagCallsNil, teeVars, arcVars, pureVars>>

\* the first GetNext of the listing of the instances of a package
ListDirGetNext ==
  \E name \in PackageNames :
    LET prefix == Join(<<RegistryPackagesPrefix, name, RegistryPackageInstancesPrefix>>)
    IN \E ord \in Orders(FileFS_ListDir(fs, prefix).entries) :
         LET r == Cursor_GetNext(FileFS_ListDirCursor(fs, prefix, ord)).ret
         IN /\ last' = Got("ListDir", name, "", "", prefix, r.item, r.err)
            /\ nops' = nops + 1
            /\ UNCHANGED <<cfg, fs, tagCallsNil, teeVars, arcVars, pureVars>>

\* the registry manifest is removed from the repository
DeleteRegistryManifest ==
  LET r == Repo_Delete(cfg.RootRepo, fs, Join(<<RegistryManifestKey>>))
  IN /\ fs' = r.fs
     /\ last' = Call("Delete", "", "", "", "", r.err)
     /\ nops' = nops + 1
     /\ UNCHANGED <<cfg, tagCallsNil, teeVars, arcVars, pureVars>>

NextGet ==
  \/ nops < MaxGetOps /\ PutNestedPackage
  \/ nops < MaxGetOps /\ DeleteRegistryManifest
  \/ nops < MaxGetOps /\ GetManifestCall
  \/ nops < MaxGetOps /\ GetPackageCall
  \/ nops < MaxGetOps /\ GetPackageInstanceInfoCall
  \/ nops < MaxGetOps /\ GetPackageReferenceCall
  \/ nops < MaxGetOps /\ ListDirGetNext

SpecGet == Init /\ [][NextGet]_vars

GetOps == {"GetManifest", "GetPackage", "GetPackageInstanceInfo", "GetPackageReference"}
Absent(st, p) == ~IsFile(st, p) /\ ~IsDir(st, p)

\* C28: a get operation on an absent object returns no record and an error
\* the caller can tell to be not-found, and the error it returns for an
\* object that is there but cannot be read is not not-found; the error a
\* listing cursor reports for an absent prefix is not-found as well
C28_NotFoundDistinguishable ==
  /\ last.op \in GetOps =>
       /\ Absent(fs, last.path) =>
            (last.record = <<>> /\ errors_Is(last.err, "ENOENT"))
       /\ (~Absent(fs, last.path) /\ ~last.err.nil) =>
            (last.record = <<>> /\ ~errors_Is(last.err, "ENOENT"))
  /\ last.op = "ListDir" =>
       (Absent(fs, last.path) => errors_Is(last.err, "ENOENT"))

(***************************************************************************)
(* The operations that make several storage mutations in one call          *)
(***************************************************************************)
MultiStepOps ==
  {"Initialize", "PutPackage", "PutPackageInstanceInfo", "PutPackageInstanceTag",
   "DeletePackageInstanceTag"}

Mutation(kind, key) == [kind |-> kind, key |-> key]

\* the storage mutations of the call c, in the order of its code
SubOperations(c) ==
  CASE c.op = "Initialize" ->
         <<Mutation("PutJSON", Join(<<RegistryManifestKey>>)),
           Mutation("EnsurePrefix", Join(<<RegistryPackagesPrefix>>)),
           Mutation("EnsurePrefix", Join(<<RegistryCASPrefix>>))>>
    [] c.op = "PutPackage" ->
         LET prefix == Join(<<RegistryPackagesPrefix, c.pkg>>)
         IN <<Mutation("EnsurePrefix", prefix),
              Mutation("PutJSON", PackageKey(c.pkg)),
              Mutation("EnsurePrefix", Join(<<RegistryPackagesPrefix, c.pkg,
                                              RegistryPackageInstancesPrefix>>)),
              Mutation("EnsurePrefix", Join(<<RegistryPackagesPrefix, c.pkg,
                                              RegistryPackageReferencesPrefix>>)),
              Mutation("EnsurePrefix", Join(<<RegistryPackagesPrefix, c.pkg,
                                              RegistryPackageTagsPrefix>>))>>
    [] c.op = "PutPackageInstanceInfo" ->
         <<Mutation("EnsurePrefix", Dir(InstanceKey(c.pkg, c.id))),
           Mutation("PutJSON", InstanceKey(c.pkg, c.id)),
           Mutation("EnsurePrefix", Join(<<RegistryPackagesPrefix, c.pkg,
                                           RegistryPackageInstancesPrefix, c.id,
                                           RegistryPackageInstanceTagsPrefix>>))>>
    [] c.op = "PutPackageInstanceTag" ->
         <<Mutation("EnsurePrefix", Dir(TagForwardKey(c.pkg, c.key, c.value, c.id))),
           Mutation("EnsurePrefix", Dir(TagReverseKey(c.pkg, c.key, c.value, c.id))),
           Mutation("PutJSON", TagForwardKey(c.pkg, c.key, c.value, c.id)),
           Mutation("PutJSON", TagReverseKey(c.pkg, c.key, c.value, c.id))>>
    [] c.op = "DeletePackageInstanceTag" ->
         <<Mutation("Delete", TagForwardKey(c.pkg, c.key, c.value, c.id)),
           Mutation("Delete", Join(<<RegistryPackagesPrefix, c.pkg,
                                     RegistryPackageInstancesPrefix, c.id,
                                     RegistryPackageInstanceTagsPrefix, c.key>>))>>

\* one storage mutation on the root repository
Mutate(rcfg, st, m) ==
  CASE m.kind = "EnsurePrefix" -> Repo_EnsurePrefix(rcfg, st, m.key)
    [] m.kind = "PutJSON" -> Repo_PutJSON(rcfg, st, m.key, <<>>)
    [] m.kind = "Delete" -> Repo_Delete(rcfg, st, m.key)

\* the errors of the mutations when each is attempted, whatever became of
\* the ones before it
RECURSIVE AttemptAll(_, _, _)
AttemptAll(rcfg, st, subs) ==
  IF subs = <<>> THEN <<>>
  ELSE LET r == Mutate(rcfg, st, Head(subs))
       IN <<r.err>> \o AttemptAll(rcfg, r.fs, Tail(subs))

\* a step that calls a multi-step operation which its tier lets through, on
\* a repository whose manifest can be read
MultiStep ==
  /\ nops' = nops + 1
  /\ last'.op \in MultiStepOps
  /\ last'.op \in AdminOps => cfg.Admin
  /\ last'.op \in WriteOps => cfg.Write
  /\ IsFile(fs, Join(<<RepositoryManifestKey>>))

\* C29: a multi-step operation returns nil when every one of its storage
\* mutations succeeded, and an error only when at least one of them failed
C29_NilUnlessFailure ==
  [][ MultiStep =>
        LET errs == AttemptAll(cfg.RootRepo, fs, SubOperations(last'))
        IN last'.err.nil <=> \A i \in 1..Len(errs) : errs[i].nil ]_vars

\* C30: a multi-step operation attempts every one of its storage mutations,
\* whatever became of the ones before, and the error it returns holds the
\* failure of every mutation that failed
C30_CollectsAllFailures ==
  [][ MultiStep =>
        LET errs == AttemptAll(cfg.RootRepo, fs, SubOperations(last'))
        IN last'.err.errs = MultiAppend(errs).errs ]_vars
(***************************************************************************)
(* PutPackageInstanceTag when one of its two objects cannot be written:    *)
(* a package whose name lies on the path of the object has made that path  *)
(* a directory.                                                            *)
(***************************************************************************)
\* number of calls in one behaviour of the shadowed registry
MaxShadowOps == 3

\* A PutPackageInstanceTag that writes an object again when its write failed
PutPackageInstanceTag_PutJSONCalls_Retry(rc, st, tag0, now) ==
  LET tag == [tag0 EXCEPT !.ApiVersion = LatestVersion, !.UpdatedAt = now]
      key1 == TagForwardKey(tag.Package, tag.Key, tag.Value, tag.Id)
      key2 == TagReverseKey(tag.Package, tag.Key, tag.Value, tag.Id)
      m1 == Repo_EnsurePrefix(rc.RootRepo, st, Dir(key1))
      m2 == Repo_EnsurePrefix(rc.RootRepo, m1.fs, Dir(key2))
      merr == ErrorOrNil(MultiAppend(<<m1.err, m2.err>>))
      w1 == Repo_PutJSON(rc.RootRepo, m2.fs, key1, MarshalTag(tag))
      w2 == Repo_PutJSON(rc.RootRepo, w1.fs, key2, MarshalTag(tag))
      Calls(k, w) == IF w.err.nil THEN <<[key |-> k, err |-> w.err]>>
                     ELSE <<[key |-> k, err |-> w.err], [key |-> k, err |-> w.err]>>
  IN IF ~rc.Write \/ ~merr.nil THEN <<>>
     ELSE Calls(key1, w1) \o Calls(key2, w2)

\* The PutJSON calls PutPackageInstanceTag makes on the root repository, in
\* the order of the calls: the key and the returned error of each
PutPackageInstanceTag_PutJSONCalls(rc, st, tag0, now) ==
  LET tag == [tag0 EXCEPT !.ApiVersion = LatestVersion, !.UpdatedAt = now]
      key1 == TagForwardKey(tag.Package, tag.Key, tag.Value, tag.Id)
      key2 == TagReverseKey(tag.Package, tag.Key, tag.Value, tag.Id)
      m1 == Repo_EnsurePrefix(rc.RootRepo, st, Dir(key1))
      m2 == Repo_EnsurePrefix(rc.RootRepo, m1.fs, Dir(key2))
      merr == ErrorOrNil(MultiAppend(<<m1.err, m2.err>>))
      w1 == Repo_PutJSON(rc.RootRepo, m2.fs, key1, MarshalTag(tag))
      w2 == Repo_PutJSON(rc.RootRepo, w1.fs, key2, MarshalTag(tag))
  IN IF ~rc.Write \/ ~merr.nil THEN <<>>
     ELSE <<[key |-> key1, err |-> w1.err], [key |-> key2, err |-> w2.err]>>

PutShadowPackage ==
  \E name \in ShadowPackageNames, now \in Now :
    LET r == RegistryImpl_PutPackage(cfg, fs, Package(name, "", "", now), now)
    IN /\ nops < MaxShadowOps
       /\ fs' = r.fs
       /\ last' = Call("PutPackage", name, "", "", "", r.err)
       /\ nops' = nops + 1
       /\ UNCHANGED <<cfg, tagCallsNil, teeVars, arcVars, pureVars>>

PutShadowedTag ==
  \E key \in TagKeys, value \in TagValues, id \in InstanceIds, now \in Now :
    LET tag == Tag(ShadowedPackage, key, value, id, now)
        r == RegistryImpl_PutPackageInstanceTag(cfg, fs, tag, now)
    IN /\ nops < MaxShadowOps
       /\ fs' = r.fs
       /\ last' = Call("PutPackageInstanceTag", ShadowedPackage, key, value, id, r.err)
                    @@ [puts |-> PutPackageInstanceTag_PutJSONCalls(cfg, fs, tag, now),
                        doc |-> MarshalTag([tag EXCEPT !.UpdatedAt = now])]
       /\ nops' = nops + 1
       /\ tagCallsNil' = (tagCallsNil /\ r.err.nil)
       /\ UNCHANGED <<cfg, teeVars, arcVars, pureVars>>

DeleteShadowedTag ==
  \E key \in TagKeys, value \in TagValues, id \in InstanceIds, now \in Now :
    LET r == RegistryImpl_DeletePackageInstanceTag(cfg, fs,
                                                   Tag(ShadowedPackage, key, value, id, now))
    IN /\ nops < MaxShadowOps
       /\ fs' = r.fs
       /\ last' = Call("DeletePackageInstanceTag", ShadowedPackage, key, value, id, r.err)
       /\ nops' = nops + 1
       /\ tagCallsNil' = (tagCallsNil /\ r.err.nil)
       /\ UNCHANGED <<cfg, teeVars, arcVars, pureVars>>

NextShadow ==
  \/ PutShadowPackage
  \/ PutShadowedTag
  \/ DeleteShadowedTag

SpecShadow == Init /\ [][NextShadow]_vars

\* one of the PutJSON calls returned nil and another one did not
HalfWritten(calls) ==
  /\ \E i \in DOMAIN calls : calls[i].err.nil
  /\ \E j \in DOMAIN calls : ~calls[j].err.nil

\* C31: when in a PutPackageInstanceTag call the write of one object succeeds
\* and the write of the other fails, the call returns a non-nil error, the
\* forward and the reverse object were each written once, the object that
\* was written is in storage after the call, and one half of the index
\* exists without the other.
C31_PartialTagWriteKept ==
  [][(/\ last'.op = "PutPackageInstanceTag"
      /\ nops' = nops + 1
      /\ HalfWritten(last'.puts)) =>
       LET key1 == TagForwardKey(last'.pkg, last'.key, last'.value, last'.id)
           key2 == TagReverseKey(last'.pkg, last'.key, last'.value, last'.id)
       IN /\ ~last'.err.nil
          /\ Len(last'.puts) = 2
          /\ last'.puts[1].key = key1
          /\ last'.puts[2].key = key2
          /\ \A i \in 1..2 :
               last'.puts[i].err.nil =>
                 /\ IsFile(fs', last'.puts[i].key)
                 /\ fs'.files[last'.puts[i].key] = last'.doc
          /\ IsFile(fs', key1) # IsFile(fs', key2)]_vars

\* C31 witness: a tag call wrote one object, failed on the other and
\* returned an error, with the written object in storage
C31_Witness ==
  /\ last.op = "PutPackageInstanceTag"
  /\ "puts" \in DOMAIN last
  /\ HalfWritten(last.puts)
  /\ ~last.err.nil
  /\ \E i \in DOMAIN last.puts : last.puts[i].err.nil /\ IsFile(fs, last.puts[i].key)
(***************************************************************************)
(* The listing cursors of the registry, one GetNext call at a time.  A     *)
(* composite cursor is a value that holds the cursor of the repository     *)
(* listing it reads; cur is the cursor a List call returned and cRets the  *)
(* results of the GetNext calls made on it.                                *)
(***************************************************************************)
\* number of registry writes before the listing
MaxListOps == 2
ListedPrefixes == {"", "tools"}

\* registryListPackagesCursor.GetNext
registryListPackagesCursor_GetNext(st, c) ==
  LET RECURSIVE Loop(_)
      Loop(leaf) ==
        LET n == Cursor_GetNext(leaf)
            at == [c EXCEPT !.cursor = n.cur]
        IN IF ~n.ret.err.nil \/ n.ret.item = <<>>
           THEN [cur |-> at, ret |-> Result(<<>>, n.ret.err)]
           ELSE IF ~n.ret.item[1].IsPrefix THEN Loop(n.cur)
           ELSE LET key == JoinName(c.prefix, n.ret.item[1].Key)
                    isPackage == RegistryImpl_isPackage(st, key)
                    g == RegistryImpl_GetPackage(st, key)
                IN IF ~isPackage.err.nil THEN [cur |-> at, ret |-> Result(<<>>, isPackage.err)]
                   ELSE IF ~isPackage.ok
                   THEN [cur |-> at, ret |-> Result(<<PrefixItem(key)>>, NilErr)]
                   ELSE IF ~g.err.nil THEN [cur |-> at, ret |-> Result(<<>>, g.err)]
                   ELSE [cur |-> at, ret |-> Result(<<PackageItem(g.manifest)>>, NilErr)]
  IN Loop(c.cursor)

\* registryListPackageInstancesCursor.GetNext
registryListPackageInstancesCursor_GetNext(st, c) ==
  LET RECURSIVE Loop(_)
      Loop(leaf) ==
        LET n == Cursor_GetNext(leaf)
            at == [c EXCEPT !.cursor = n.cur]
        IN IF ~n.ret.err.nil \/ n.ret.item = <<>>
           THEN [cur |-> at, ret |-> Result(<<>>, n.ret.err)]
           ELSE IF ~n.ret.item[1].IsPrefix THEN Loop(n.cur)
           ELSE IF ~IsValidInstanceId(n.ret.item[1].Key) THEN Loop(n.cur)
           ELSE LET r == RegistryImpl_GetPackageInstanceInfo(st, c.pkg, n.ret.item[1].Key)
                IN [cur |-> at, ret |-> Result(r.instance, r.err)]
  IN Loop(c.cursor)

\* registryListPackageInstancesByTagCursor.GetNext
registryListPackageInstancesByTagCursor_GetNext(st, c) ==
  LET RECURSIVE Loop(_)
      Loop(leaf) ==
        LET n == Cursor_GetNext(leaf)
            at == [c EXCEPT !.cursor = n.cur]
        IN IF ~n.ret.err.nil \/ n.ret.item = <<>>
           THEN [cur |-> at, ret |-> Result(<<>>, n.ret.err)]
           ELSE IF n.ret.item[1].IsPrefix \/ ~IsValidInstanceId(n.ret.item[1].Key)
           THEN Loop(n.cur)
           ELSE LET key == Join(<<RegistryPackagesPrefix, c.tag.Package, c.tag.Key,
                                  c.tag.Value, n.ret.item[1].Key>>)
                    r == Repo_GetJSON(st, key)
                IN IF r.err.nil THEN [cur |-> at, ret |-> Result(<<UnmarshalTag(r.data)>>, NilErr)]
                   ELSE [cur |-> at, ret |-> Result(<<>>, r.err)]
  IN Loop(c.cursor)

\* GetNext of the cursor a List call of the registry returned
RegistryCursor_GetNext(st, c) ==
  CASE c.kind = "registryListPackagesCursor" -> registryListPackagesCursor_GetNext(st, c)
    [] c.kind = "registryListPackageInstancesCursor" ->
         registryListPackageInstancesCursor_GetNext(st, c)
    [] c.kind = "registryListPackageInstancesByTagCursor" ->
         registryListPackageInstancesByTagCursor_GetNext(st, c)
    [] OTHER -> Cursor_GetNext(c)

\* RegistryImpl.ListPackages, the directory being read in the order ord
ListPackagesCursor(st, prefix, ord) ==
  LET isPackage == RegistryImpl_isPackage(st, prefix)
      g == RegistryImpl_GetPackage(st, prefix)
  IN IF ~isPackage.err.nil THEN NewErrorCursor(isPackage.err)
     ELSE IF isPackage.ok
     THEN IF ~g.err.nil THEN NewErrorCursor(g.err)
          ELSE NewSliceCursor(<<PackageItem(g.manifest)>>)
     ELSE [kind |-> "registryListPackagesCursor", prefix |-> prefix,
           cursor |-> FileFS_ListDirCursor(st, Join(<<RegistryPackagesPrefix, prefix>>), ord)]

\* RegistryImpl.ListPackageInstances
ListPackageInstancesCursor(st, name, ord) ==
  [kind |-> "registryListPackageInstancesCursor", pkg |-> name,
   cursor |-> FileFS_ListDirCursor(
                st, Join(<<RegistryPackagesPrefix, name, RegistryPackageInstancesPrefix>>), ord)]

\* RegistryImpl.ListPackageInstancesByTag
ListPackageInstancesByTagCursor(st, ptv, ord) ==
  [kind |-> "registryListPackageInstancesByTagCursor", tag |-> ptv,
   cursor |-> FileFS_ListDirCursor(
                st, Join(<<RegistryPackagesPrefix, ptv.Package, RegistryPackageTagsPrefix,
                           ptv.Key, ptv.Value>>), ord)]

OpenListPackages ==
  \E prefix \in ListedPrefixes :
    \E ord \in Orders(FileFS_ListDir(fs, Join(<<RegistryPackagesPrefix, prefix>>)).entries) :
      /\ cur = <<>>
      /\ cur' = ListPackagesCursor(fs, prefix, ord)
      /\ last' = Call("ListPackages", prefix, "", "", "", NilErr)
      /\ UNCHANGED <<cfg, fs, nops, tagCallsNil, teeVars, arcVars, tarVars, valVars,
                     repositories, cRets>>

OpenListPackageInstances ==
  \E name \in PackageNames :
    \E ord \in Orders(FileFS_ListDir(fs, Join(<<RegistryPackagesPrefix, name,
                                                RegistryPackageInstancesPrefix>>)).entries) :
      /\ cur = <<>>
      /\ cur' = ListPackageInstancesCursor(fs, name, ord)
      /\ last' = Call("ListPackageInstances", name, "", "", "", NilErr)
      /\ UNCHANGED <<cfg, fs, nops, tagCallsNil, teeVars, arcVars, tarVars, valVars,
                     repositories, cRets>>

OpenListPackageInstancesByTag ==
  \E pkg \in PackageNames, key \in TagKeys, value \in TagValues :
    \E ord \in Orders(FileFS_ListDir(fs, Join(<<RegistryPackagesPrefix, pkg,
                                                RegistryPackageTagsPrefix, key,
                                                value>>)).entries) :
      /\ cur = <<>>
      /\ cur' = ListPackageInstancesByTagCursor(
                  fs, [Package |-> pkg, Key |-> key, Value |-> value], ord)
      /\ last' = Call("ListPackageInstancesByTag", pkg, key, value, "", NilErr)
      /\ UNCHANGED <<cfg, fs, nops, tagCallsNil, teeVars, arcVars, tarVars, valVars,
                     repositories, cRets>>

RegistryCursorGetNext ==
  /\ cur # <<>>
  /\ Len(cRets) < MaxGetNext
  /\ cur' = RegistryCursor_GetNext(fs, cur).cur
  /\ cRets' = Append(cRets, RegistryCursor_GetNext(fs, cur).ret)
  /\ UNCHANGED <<regVars, teeVars, arcVars, tarVars, valVars, repositories>>

\* the registry is written, then one listing is opened and read
NextListing ==
  \/ cur = <<>> /\ nops < MaxListOps /\ PutPackage
  \/ cur = <<>> /\ nops < MaxListOps /\ PutNestedPackage
  \/ cur = <<>> /\ nops < MaxListOps /\ PutPackageInstanceInfo
  \/ cur = <<>> /\ nops < MaxListOps /\ PutPackageInstanceTag
  \/ OpenListPackages
  \/ OpenListPackageInstances
  \/ OpenListPackageInstancesByTag
  \/ RegistryCursorGetNext

SpecListing == Init /\ [][NextListing]_vars

\* C32: once GetNext of a listing cursor of the registry has returned an
\* error, every later GetNext of that cursor returns an error and no element.
C32_CompositeStopsAtFirstError ==
  \A i, j \in 1..Len(cRets) :
    (i < j /\ ~cRets[i].err.nil) => (~cRets[j].err.nil /\ cRets[j].item = <<>>)
(***************************************************************************)
(* The cursor of FileFS.ListDir together with its cleanup goroutine and    *)
(* the context of the caller.  cur holds                                   *)
(*   c        the fileFSCursor: file is <<>> for nil, else the reference   *)
(*            to the handle; entries is the buffer                         *)
(*   handle   the *os.File: what it was opened on, its unread entries, the *)
(*            number of Close calls made on it and the number of Readdir   *)
(*            calls made on it after a Close                               *)
(*   done     the context made by context.WithCancel is done               *)
(*   caller   the context of the caller has been cancelled                 *)
(*   cleanup  the goroutine: "waiting" in <-ctx.Done() or "returned"       *)
(***************************************************************************)
OpenedFiles ==
  {[isDir |-> TRUE, unread |-> listing] : listing \in DirListings}
    \cup {[isDir |-> FALSE, unread |-> <<>>]}

\* (*os.File).Readdir on a handle that Close has been called on
Handle_Readdir(h, n) ==
  IF h.closes > 0 THEN [entries |-> <<>>, err |-> Err("os.ErrClosed"), file |-> h.file]
  ELSE Readdir(h.file, n)

\* FileFS.ListDir when os.Open succeeds
ListDirOpen ==
  \E f \in OpenedFiles :
    /\ cur = <<>>
    /\ cur' = [kind |-> "ListDir",
               c |-> [file |-> <<"handle">>, entries |-> <<>>],
               handle |-> [file |-> f, closes |-> 0, lateReads |-> 0],
               done |-> FALSE, caller |-> FALSE, cleanup |-> "waiting"]
    /\ UNCHANGED <<regVars, teeVars, arcVars, tarVars, valVars, repositories, cRets>>

\* fileFSCursor.GetNext
DirCursorGetNext ==
  /\ cur # <<>>
  /\ Len(cRets) < MaxGetNext
  /\ IF cur.c.file = <<>>
     THEN /\ cRets' = Append(cRets, Result(<<>>, Err("io.EOF")))
          /\ cur' = cur
     ELSE LET read == Len(cur.c.entries) = 0
              r == Handle_Readdir(cur.handle, ReaddirCount)
              entries == IF read THEN r.entries ELSE cur.c.entries
              failed == read /\ ~r.err.nil
              err == IF ~read \/ r.err = Err("io.EOF") THEN NilErr ELSE r.err
              late == IF read /\ cur.handle.closes > 0 THEN 1 ELSE 0
          IN /\ cRets' = Append(cRets,
                                IF Len(entries) = 0 THEN Result(<<>>, err)
                                ELSE Result(<<Head(entries)>>, err))
             /\ cur' = [cur EXCEPT
                          !.c.file = IF failed THEN <<>> ELSE @,
                          !.c.entries = IF Len(entries) = 0 THEN entries ELSE Tail(entries),
                          !.handle.file = IF read THEN r.file ELSE @,
                          !.handle.lateReads = @ + late,
                          !.done = @ \/ failed]
  /\ UNCHANGED <<regVars, teeVars, arcVars, tarVars, valVars, repositories>>

\* the caller cancels the context it gave to ListDir
CancelContext ==
  /\ cur # <<>>
  /\ ~cur.caller
  /\ cur' = [cur EXCEPT !.caller = TRUE, !.done = TRUE]
  /\ UNCHANGED <<regVars, teeVars, arcVars, tarVars, valVars, repositories, cRets>>

\* fileFSCursor.cleanup
fileFSCursor_cleanup ==
  /\ cur # <<>>
  /\ cur.cleanup = "waiting"
  /\ cur.done
  /\ cur' = [cur EXCEPT !.handle.closes = @ + 1, !.cleanup = "returned"]
  /\ UNCHANGED <<regVars, teeVars, arcVars, tarVars, valVars, repositories, cRets>>

InitDirCursor ==
  /\ RegistryIdle /\ TeeIdle /\ ArchiveOff /\ PureIdle

NextDirCursor ==
  \/ ListDirOpen
  \/ DirCursorGetNext
  \/ CancelContext
  \/ fileFSCursor_cleanup

\* the goroutine started by ListDir is scheduled
SpecDirCursor == InitDirCursor /\ [][NextDirCursor]_vars /\ WF_vars(fileFSCursor_cleanup)

\* the cursor has reported exhaustion or an error, or the caller has cancelled
DirCursorReleased ==
  /\ cur # <<>>
  /\ cur.caller \/ \E i \in 1..Len(cRets) : cRets[i].item = <<>>

\* C33: the handle opened by FileFS.ListDir is never closed twice, is closed
\* after the cursor has reported exhaustion or a read error or the context of
\* the caller has been cancelled, and no Readdir is issued on it after it has
\* been closed.
C33_HandleClosedOnceNoLateRead ==
  /\ [](cur # <<>> => cur.handle.closes <= 1 /\ cur.handle.lateReads = 0)
  /\ (DirCursorReleased ~> (cur # <<>> /\ cur.handle.closes = 1))
(***************************************************************************)
(* Cancellation and joining of the tasks of TeeWriter.Write.               *)
(***************************************************************************)
\* C34: in one Write call, a task makes at most one sub-write once the shared
\* context is cancelled (the one whose loop check came before the
\* cancellation), and that sub-write is a whole Write of the destination: it
\* ends with one of the outcomes the destination may return, and the
\* destination receives the n bytes it accepted.
C34_SiblingsStopAfterCancel ==
  /\ [](\A k \in DOMAIN tTask : tTask[k].late <= 1)
  /\ [][\A k \in DOMAIN tTask :
          (tCancelled /\ tTask[k].pc = "write" /\ tTask'[k] # tTask[k]) =>
            /\ tTask'[k].pc = "check"
            /\ tTask'[k].late = tTask[k].late + 1
            /\ \E o \in WriteOutcomes(tW[k], k, Len(tData) - tTask[k].off) :
                 /\ tTask'[k].n = o.n
                 /\ tTask'[k].err = o.err
                 /\ tRecv'[k] =
                      tRecv[k] \o SubSeq(tData, tTask[k].off + 1, tTask[k].off + o.n)]_vars

\* a destination has failed, and a sibling that made its one sub-write after
\* the cancellation, accepted by the destination in part, has left its loop
\* with data remaining
C34_Witness ==
  \E j, k \in DOMAIN tTask :
    /\ j # k
    /\ tFailed[j] # ""
    /\ tTask[k].late = 1
    /\ tTask[k].n > 0
    /\ tTask[k].off < Len(tData)
    /\ tFailed[k] = ""
    /\ tTask[k].pc \in {"post", "ret", "done"}
\* C35: Write has one task per destination, each spawned once; it returns only
\* when every task has returned; and after it has returned no task takes a
\* step and no destination receives a byte of that call.
C35_TasksJoinedBeforeReturn ==
  /\ [](DOMAIN tTask = DOMAIN tW)
  /\ [](tMain = "returned" => \A k \in DOMAIN tTask : tTask[k].pc = "done")
  /\ [][\A k \in DOMAIN tTask : tTask[k].pc # "idle" => tTask'[k].pc # "idle"]_vars
  /\ [][tMain = "returned" => (tRecv' = tRecv /\ tTask' = tTask)]_vars

\* a Write to two destinations has returned: one destination failed, the
\* other accepted all the data, and both tasks have returned
C35_Witness ==
  /\ tMain = "returned"
  /\ Len(tW) = 2
  /\ Len(tData) > 0
  /\ \E j, k \in DOMAIN tTask :
       /\ tFailed[j] # ""
       /\ tFailed[k] = ""
       /\ tRecv[k] = tData
  /\ \A k \in DOMAIN tTask : tTask[k].pc = "done"
(***************************************************************************)
(* Two clients that call PutPackageReference for the same (package, name)  *)
(* at the same time.  os.WriteFile is three system calls: the file is      *)
(* opened with O_WRONLY|O_CREATE|O_TRUNC, the data is written at offset 0  *)
(* and the file is closed.  A file is <<>> when empty, a document, or the  *)
(* document last written followed by rest bytes of a longer one.           *)
(*   last.clients  per client, its Reference, its position "call", "open", *)
(*                 "write" or "returned", and the error it returned        *)
(*   last.order    the clients in the order of their write system calls    *)
(***************************************************************************)
\* number of registry calls made before the two clients start
MaxRaceOps == 1

\* an id no validator accepts, shorter than an instance id
ShortId == "abc"
RaceIds == InstanceIds \cup {ShortId}

\* the number of bytes of json.Marshal of a Reference: 63 bytes of braces,
\* quotes, colons, commas and field names, and the values
ReferenceJSONLen(doc) ==
  63 + Len(doc.api_version) + Len(doc.package) + Len(doc.name) + Len(doc.id)
     + Len(ToString(doc.updated_at))

FileLen(content) ==
  IF content = <<>> THEN 0
  ELSE IF "rest" \in DOMAIN content THEN ReferenceJSONLen(content.head) + content.rest
  ELSE ReferenceJSONLen(content)

\* os.OpenFile(name, O_WRONLY|O_CREATE|O_EXCL, perm)
OpenTruncate_Excl(st, p) ==
  IF ParentError(st, p) # "" THEN [fs |-> st, err |-> Err(ParentError(st, p))]
  ELSE IF IsDir(st, p) \/ IsFile(st, p) THEN [fs |-> st, err |-> Err("EEXIST")]
  ELSE [fs |-> [st EXCEPT !.files =
                  [q \in DOMAIN @ \cup {p} |-> IF q = p THEN <<>> ELSE @[q]]],
        err |-> NilErr]

\* os.OpenFile(name, O_WRONLY|O_CREATE|O_TRUNC, perm)
OpenTruncate(st, p) ==
  IF ParentError(st, p) # "" THEN [fs |-> st, err |-> Err(ParentError(st, p))]
  ELSE IF IsDir(st, p) THEN [fs |-> st, err |-> Err("EISDIR")]
  ELSE [fs |-> [st EXCEPT !.files =
                  [q \in DOMAIN @ \cup {p} |-> IF q = p THEN <<>> ELSE @[q]]],
        err |-> NilErr]

\* f.Write(data) at offset 0 of a file opened before
WriteAtStart(st, p, doc) ==
  LET old == st.files[p]
      new == IF FileLen(old) <= ReferenceJSONLen(doc) THEN doc
             ELSE [head |-> doc, rest |-> FileLen(old) - ReferenceJSONLen(doc)]
  IN [st EXCEPT !.files[p] = new]

RaceStarted == "clients" \in DOMAIN last

\* two clients are about to call PutPackageReference
StartReferenceRace ==
  \E pkg \in PackageNames, name \in RefNames, id1, id2 \in RaceIds, now1, now2 \in Now :
    /\ ~RaceStarted
    /\ id1 # id2
    /\ last' = Call("PutPackageReference", pkg, name, "", "", NilErr)
                 @@ [clients |-> <<[ref |-> Reference(pkg, name, id1, now1),
                                    pc |-> "call", err |-> NilErr],
                                   [ref |-> Reference(pkg, name, id2, now2),
                                    pc |-> "call", err |-> NilErr]>>,
                     order |-> <<>>]
    /\ UNCHANGED <<cfg, fs, nops, tagCallsNil, teeVars, arcVars, pureVars>>

\* PutPackageReference and PutJSON up to the call of fs.Write
ReferenceCall ==
  \E i \in 1..2 :
    /\ RaceStarted
    /\ last.clients[i].pc = "call"
    /\ last' = [last EXCEPT !.clients[i] =
                  IF ~cfg.Write
                  THEN [@ EXCEPT !.pc = "returned", !.err = Err("ErrRegistryWriteIsNotAllowed")]
                  ELSE IF ~cfg.RootRepo.Write
                  THEN [@ EXCEPT !.pc = "returned", !.err = Err("ErrRepoWriteIsNotAllowed")]
                  ELSE [@ EXCEPT !.pc = "open"]]
    /\ UNCHANGED <<cfg, fs, nops, tagCallsNil, teeVars, arcVars, pureVars>>

\* os.WriteFile: the file is opened
ReferenceOpen ==
  \E i \in 1..2 :
    LET r == OpenTruncate(fs, ReferenceKey(last.pkg, last.key))
    IN /\ RaceStarted
       /\ last.clients[i].pc = "open"
       /\ fs' = r.fs
       /\ last' = [last EXCEPT !.clients[i] =
                     IF r.err.nil THEN [@ EXCEPT !.pc = "write"]
                     ELSE [@ EXCEPT !.pc = "returned", !.err = r.err]]
       /\ UNCHANGED <<cfg, nops, tagCallsNil, teeVars, arcVars, pureVars>>

\* os.WriteFile: the data is written and the file is closed; the call returns
ReferenceWrite ==
  \E i \in 1..2 :
    /\ RaceStarted
    /\ last.clients[i].pc = "write"
    /\ fs' = WriteAtStart(fs, ReferenceKey(last.pkg, last.key),
                          MarshalReference(last.clients[i].ref))
    /\ last' = [last EXCEPT !.clients[i].pc = "returned", !.order = Append(@, i)]
    /\ UNCHANGED <<cfg, nops, tagCallsNil, teeVars, arcVars, pureVars>>

NextRefRace ==
  \/ ~RaceStarted /\ nops < MaxRaceOps /\ PutPackage
  \/ ~RaceStarted /\ nops < MaxRaceOps /\ PutPackageReference
  \/ StartReferenceRace
  \/ ReferenceCall
  \/ ReferenceOpen
  \/ ReferenceWrite

SpecRefRace == Init /\ [][NextRefRace]_vars

BothReturned == RaceStarted /\ \A i \in 1..2 : last.clients[i].pc = "returned"

\* the two calls are permitted, the references are those NewReference makes,
\* and the package has been put
RaceOfValidWrites ==
  /\ RaceStarted
  /\ cfg.Write /\ cfg.RootRepo.Write
  /\ \A i \in 1..2 : IsValidInstanceId(last.clients[i].ref.Id)
  /\ IsDir(fs, Dir(ReferenceKey(last.pkg, last.key)))

MaxNewOps == 2

\* the schemes that have a factory in RepositoryFactories
RegisteredSchemes == {"file", "http", "https", "webdav", "https+webdav"}
UrlSchemes == RegisteredSchemes \cup {"s3", "ftp", ""}
RepositoryUrls == [scheme : UrlSchemes, parses : BOOLEAN]
NewRepositoryConfigs == [URL : RepositoryUrls, Admin : BOOLEAN, Write : BOOLEAN]

\* url.Parse
url_Parse(u) ==
  IF u.parses THEN [scheme |-> u.scheme, err |-> NilErr]
  ELSE [scheme |-> "", err |-> Err("url.Error")]

\* what the factory of a scheme may return: NewFileFS fails only when the URL
\* does not parse; the factories of the remote backends may fail
FactoryOutcomes(scheme, rcfg) ==
  IF scheme = "file"
  THEN {[fs |-> <<"FileFS">>, err |-> url_Parse(rcfg.URL).err]}
  ELSE {[fs |-> <<scheme>>, err |-> NilErr], [fs |-> <<>>, err |-> Err("factory error")]}

\* NewRepository with the outcome f of the factory it selects: repository is
\* <<>> for nil, else the repositoryImpl, whose fs is <<>> for nil
NewRepository(rcfg, f) ==
  LET u == url_Parse(rcfg.URL)
      registered == u.scheme \in RegisteredSchemes
      backend == IF registered THEN f.fs ELSE <<>>
  IN IF ~u.err.nil THEN [repository |-> <<>>, err |-> u.err]
     ELSE [repository |-> <<[cfg |-> rcfg, fs |-> backend]>>, err |-> NilErr]

CallNewRepository ==
  \E rcfg \in NewRepositoryConfigs :
    \E f \in FactoryOutcomes(rcfg.URL.scheme, rcfg) :
      LET r == NewRepository(rcfg, f)
      IN /\ nops < MaxNewOps
         /\ last' = Call("NewRepository", "", "", "", "", r.err)
                      @@ [rcfg |-> rcfg, factory |-> f, repository |-> r.repository]
         /\ nops' = nops + 1
         /\ UNCHANGED <<cfg, fs, tagCallsNil, teeVars, arcVars, pureVars>>

NextNewRepository == CallNewRepository

InitNewRepository == RegistryIdle /\ TeeIdle /\ ArchiveOff /\ PureIdle

SpecNewRepository == InitNewRepository /\ [][NextNewRepository]_vars

\* C37: NewRepository returns an error and no Repository when the scheme of
\* the URL has no factory or when the factory fails, and never returns nil
\* together with a Repository that has no backend.
C37_NewRepositoryReportsNoBackend ==
  last.op = "NewRepository" =>
    /\ (last.rcfg.URL.parses /\
        (last.rcfg.URL.scheme \notin RegisteredSchemes \/ ~last.factory.err.nil)) =>
         (~last.err.nil /\ last.repository = <<>>)
    /\ ~(last.err.nil /\ last.repository # <<>> /\ last.repository[1].fs = <<>>)
(***************************************************************************)
(* A package and the packages named after its storage prefixes: what the   *)
(* read operations of the registry return for each of them.                *)
(***************************************************************************)
\* number of registry calls
MaxIsolationOps == 2

\* registryListTagsCursor.GetNext from entry i of the listing
TagsGetNext(pkg, ord, i) ==
  LET RECURSIVE Loop(_)
      Loop(j) ==
        IF j > Len(ord) THEN [item |-> <<>>, err |-> NilErr, next |-> j]
        ELSE IF ~ord[j].IsPrefix THEN Loop(j + 1)
        ELSE [item |-> <<[Package |-> pkg, Key |-> ord[j].Key]>>, err |-> NilErr,
              next |-> j + 1]
  IN Loop(i)

\* RegistryImpl.ListPackageTags, drained, for each order of the listing
ListPackageTags(st, name) ==
  LET l == Repo_List(st, Join(<<RegistryPackagesPrefix, name, RegistryPackageTagsPrefix>>))
  IN IF ~l.err.nil THEN {[items |-> <<>>, err |-> l.err]}
     ELSE {Drain([i \in 1..(Len(ord) + 1) |-> TagsGetNext(name, ord, i)], 1) :
             ord \in Orders(l.entries)}

\* registryListRefsCursor.GetNext from entry i of the listing
RefsGetNext(st, pkg, ord, i) ==
  LET RECURSIVE Loop(_)
      Loop(j) ==
        IF j > Len(ord) THEN [item |-> <<>>, err |-> NilErr, next |-> j]
        ELSE IF ord[j].IsPrefix THEN Loop(j + 1)
        ELSE LET r == RegistryImpl_GetPackageReference(st, pkg, ord[j].Key)
             IN [item |-> r.ref, err |-> r.err, next |-> j + 1]
  IN Loop(i)

\* RegistryImpl.ListPackageReferences, drained, for each order of the listing
ListPackageReferences(st, name) ==
  LET l == Repo_List(st, Join(<<RegistryPackagesPrefix, name,
                                RegistryPackageReferencesPrefix>>))
  IN IF ~l.err.nil THEN {[items |-> <<>>, err |-> l.err]}
     ELSE {Drain([i \in 1..(Len(ord) + 1) |-> RefsGetNext(st, name, ord, i)], 1) :
             ord \in Orders(l.entries)}

\* what GetPackage and the listings of a package return
PackageView(st, name) ==
  [GetPackage |-> RegistryImpl_GetPackage(st, name),
   ListPackageTags |-> ListPackageTags(st, name),
   ListPackageReferences |-> ListPackageReferences(st, name),
   ListPackageInstances |-> ListPackageInstances(st, name),
   ListPackageInstancesByTag |->
     [k \in TagKeys, v \in TagValues |->
        ListPackageInstancesByTag(st, [Package |-> name, Key |-> k, Value |-> v])]]

PutIsolatedPackage ==
  \E name \in IsolatedPackageNames, now \in Now :
    LET r == RegistryImpl_PutPackage(cfg, fs, Package(name, "", "", now), now)
    IN /\ nops < MaxIsolationOps
       /\ fs' = r.fs
       /\ last' = Call("PutPackage", name, "", "", "", r.err)
       /\ nops' = nops + 1
       /\ UNCHANGED <<cfg, tagCallsNil, teeVars, arcVars, pureVars>>

PutIsolatedInstanceInfo ==
  \E pkg \in IsolatedPackageNames, id \in InstanceIds, now \in Now :
    LET r == RegistryImpl_PutPackageInstanceInfo(cfg, fs, Instance(pkg, id, now), now)
    IN /\ nops < MaxIsolationOps
       /\ fs' = r.fs
       /\ last' = Call("PutPackageInstanceInfo", pkg, "", "", id, r.err)
       /\ nops' = nops + 1
       /\ UNCHANGED <<cfg, tagCallsNil, teeVars, arcVars, pureVars>>

PutIsolatedTag ==
  \E pkg \in IsolatedPackageNames, key \in TagKeys, value \in TagValues,
     id \in InstanceIds, now \in Now :
    LET r == RegistryImpl_PutPackageInstanceTag(cfg, fs, Tag(pkg, key, value, id, now), now)
    IN /\ nops < MaxIsolationOps
       /\ fs' = r.fs
       /\ last' = Call("PutPackageInstanceTag", pkg, key, value, id, r.err)
       /\ nops' = nops + 1
       /\ UNCHANGED <<cfg, tagCallsNil, teeVars, arcVars, pureVars>>

PutIsolatedReference ==
  \E pkg \in IsolatedPackageNames, name \in RefNames, id \in InstanceIds, now \in Now :
    LET r == RegistryImpl_PutPackageReference(cfg, fs, Reference(pkg, name, id, now))
    IN /\ nops < MaxIsolationOps
       /\ fs' = r.fs
       /\ last' = Call("PutPackageReference", pkg, name, "", id, r.err)
       /\ nops' = nops + 1
       /\ UNCHANGED <<cfg, tagCallsNil, teeVars, arcVars, pureVars>>

NextIsolation ==
  \/ PutIsolatedPackage
  \/ PutIsolatedInstanceInfo
  \/ PutIsolatedTag
  \/ PutIsolatedReference

SpecIsolation == Init /\ [][NextIsolation]_vars

\* C38: a registry write made for a package Q leaves what GetPackage and the
\* listings return for every other package P as it was, and a name becomes a
\* package only by a PutPackage of exactly that name.
C38_PackageNamespaceIsolation ==
  [][nops' = nops + 1 =>
       \A P \in IsolatedPackageNames :
         /\ P # last'.pkg => PackageView(fs', P) = PackageView(fs, P)
         /\ (RegistryImpl_isPackage(fs', P).ok /\ ~RegistryImpl_isPackage(fs, P).ok) =>
              (last'.op = "PutPackage" /\ last'.pkg = P)]_vars
(***************************************************************************)
(* ListPackageInstanceTags: the tags of one instance, read from the        *)
(* objects PutPackageInstanceTag writes under the instance.                *)
(***************************************************************************)
\* number of registry calls
MaxTagOps == 2

\* registryInstanceTagsCursor.GetNext from entry i of the listing
InstanceTagsGetNext(st, inst, ord, i) ==
  LET RECURSIVE Loop(_)
      Loop(j) ==
        IF j > Len(ord) THEN [item |-> <<>>, err |-> NilErr, next |-> j]
        ELSE IF ord[j].IsPrefix THEN Loop(j + 1)
        ELSE LET key == Join(<<RegistryPackagesPrefix, inst.Package,
                               RegistryPackageInstancesPrefix, inst.Id,
                               RegistryPackageInstanceTagsPrefix, ord[j].Key>>)
                 r == Repo_GetJSON(st, key)
             IN IF r.err.nil
                THEN [item |-> <<UnmarshalTag(r.data)>>, err |-> NilErr, next |-> j + 1]
                ELSE [item |-> <<>>, err |-> r.err, next |-> j + 1]
  IN Loop(i)

\* RegistryImpl.ListPackageInstanceTags, drained, for each order of the listing
ListPackageInstanceTags(st, inst) ==
  LET l == Repo_List(st, Join(<<RegistryPackagesPrefix, inst.Package,
                                RegistryPackageInstancesPrefix, inst.Id,
                                RegistryPackageInstanceTagsPrefix>>))
  IN IF ~l.err.nil THEN {[items |-> <<>>, err |-> l.err]}
     ELSE {Drain([i \in 1..(Len(ord) + 1) |-> InstanceTagsGetNext(st, inst, ord, i)], 1) :
             ord \in Orders(l.entries)}

\* ListPackageInstanceTags(instance) and the draining of its cursor
ListPackageInstanceTagsCall ==
  \E pkg \in PackageNames, id \in InstanceIds :
    \E d \in ListPackageInstanceTags(fs, Instance(pkg, id, ZeroTime)) :
      /\ nops < MaxTagOps
      /\ last' = Call("ListPackageInstanceTags", pkg, "", "", id, d.err) @@ [items |-> d.items]
      /\ nops' = nops + 1
      /\ UNCHANGED <<cfg, fs, tagCallsNil, teeVars, arcVars, pureVars>>

NextInstanceTags ==
  \/ nops < MaxTagOps /\ PutPackageInstanceTag
  \/ nops < MaxTagOps /\ DeletePackageInstanceTag
  \/ ListPackageInstanceTagsCall

SpecInstanceTags == Init /\ [][NextInstanceTags]_vars

\* the (key, value) pairs of the tags attached to an instance: those whose
\* object under the instance is stored
AttachedTags(st, pkg, id) ==
  {kv \in TagKeys \X TagValues : IsFile(st, TagReverseKey(pkg, kv[1], kv[2], id))}

DrainedTags(d) == {<<d.items[i].Key, d.items[i].Value>> : i \in 1..Len(d.items)}

\* C39: after PutPackageInstanceTag({P, K, V, I}) has returned nil, draining
\* ListPackageInstanceTags of instance (P, I) ends without an error and yields
\* a tag with key K and value V; and a drained ListPackageInstanceTags that
\* ended without an error has yielded exactly the tags attached to the instance.
C39_ReverseIndexReadable ==
  /\ (last.op = "PutPackageInstanceTag" /\ last.err.nil) =>
       \A d \in ListPackageInstanceTags(fs, Instance(last.pkg, last.id, ZeroTime)) :
         /\ d.err.nil
         /\ <<last.key, last.value>> \in DrainedTags(d)
  /\ (last.op = "ListPackageInstanceTags" /\ last.err.nil) =>
       DrainedTags(last) = AttachedTags(fs, last.pkg, last.id)
(***************************************************************************)
(* Config: the table of configured registries.  The map Registries is      *)
(* [nil |-> TRUE] for a nil map, else its entries m; last.config is the    *)
(* Config the calls are made on.                                           *)
(***************************************************************************)
\* number of calls on the Config
MaxConfigOps == 2

ConfigNames == {"acme", "beta", "gamma"}
ConfigValues == {[URL |-> "file:///a/shop.json"], [URL |-> "file:///b/shop.json"]}

NilMap == [nil |-> TRUE, m |-> <<>>]
MakeMap(m) == [nil |-> FALSE, m |-> m]
ConfigTables ==
  {NilMap} \cup {MakeMap(m) : m \in UNION {[S -> ConfigValues] : S \in SUBSET ConfigNames}}

\* _, ok := m[name]: a nil map has no entry
MapHas(t, name) == ~t.nil /\ name \in DOMAIN t.m
\* m[name] = v on a map that is not nil
MapSet(t, name, v) ==
  MakeMap([n \in DOMAIN t.m \cup {name} |-> IF n = name THEN v ELSE t.m[n]])

Config_AddRegistry(c, name, registryCfg) ==
  LET regs == IF c.Registries.nil THEN MakeMap(<<>>) ELSE c.Registries
  IN IF MapHas(regs, name)
     THEN [config |-> [c EXCEPT !.Registries = regs], err |-> Err("ErrRegistryConfigExists")]
     ELSE [config |-> [c EXCEPT !.Registries = MapSet(regs, name, registryCfg)],
           err |-> NilErr]

Config_UpdateRegistry(c, name, registryCfg) ==
  LET regs == IF ~c.Registries.nil THEN MakeMap(<<>>) ELSE c.Registries
  IN IF ~MapHas(regs, name)
     THEN [config |-> [c EXCEPT !.Registries = regs],
           err |-> Err("ErrRegistryConfigNotExists")]
     ELSE [config |-> [c EXCEPT !.Registries = MapSet(regs, name, registryCfg)],
           err |-> NilErr]

AddRegistry ==
  \E name \in ConfigNames, registryCfg \in ConfigValues :
    LET r == Config_AddRegistry(last.config, name, registryCfg)
    IN /\ nops < MaxConfigOps
       /\ last' = Call("AddRegistry", name, "", "", "", r.err)
                    @@ [config |-> r.config, registryCfg |-> registryCfg]
       /\ nops' = nops + 1
       /\ UNCHANGED <<cfg, fs, tagCallsNil, teeVars, arcVars, pureVars>>

UpdateRegistry ==
  \E name \in ConfigNames, registryCfg \in ConfigValues :
    LET r == Config_UpdateRegistry(last.config, name, registryCfg)
    IN /\ nops < MaxConfigOps
       /\ last' = Call("UpdateRegistry", name, "", "", "", r.err)
                    @@ [config |-> r.config, registryCfg |-> registryCfg]
       /\ nops' = nops + 1
       /\ UNCHANGED <<cfg, fs, tagCallsNil, teeVars, arcVars, pureVars>>

\* a Config as LoadConfig returns it
InitConfig ==
  /\ cfg = [Admin |-> FALSE, Write |-> FALSE, RootRepo |-> [Admin |-> FALSE, Write |-> FALSE]]
  /\ fs = InitialFS
  /\ \E t \in ConfigTables :
       last = Call("LoadConfig", "", "", "", "", NilErr) @@ [config |-> [Registries |-> t]]
  /\ nops = 0
  /\ tagCallsNil = TRUE
  /\ TeeIdle /\ ArchiveOff /\ PureIdle

NextConfig ==
  \/ AddRegistry
  \/ UpdateRegistry

SpecConfig == InitConfig /\ [][NextConfig]_vars

\* the entries of a table: a nil map has none
MapEntries(t) == IF t.nil THEN <<>> ELSE t.m

\* C40: UpdateRegistry(name, cfg) replaces the entry of name and returns nil
\* when name is configured and returns ErrRegistryConfigNotExists when it is
\* not; AddRegistry(name, cfg) returns ErrRegistryConfigExists when name is
\* configured and adds the entry when it is not; every other entry, and in
\* the error cases every entry, stays as it was.
C40_ConfigTableUpdates ==
  [][nops' = nops + 1 =>
       LET before == MapEntries(last.config.Registries)
           after == MapEntries(last'.config.Registries)
           name == last'.pkg
           Replaced == /\ last'.err.nil
                       /\ DOMAIN after = DOMAIN before \cup {name}
                       /\ after[name] = last'.registryCfg
                       /\ \A n \in DOMAIN before \ {name} : after[n] = before[n]
           Refused(code) == last'.err = Err(code) /\ after = before
       IN /\ last'.op = "UpdateRegistry" =>
               IF name \in DOMAIN before THEN Replaced
               ELSE Refused("ErrRegistryConfigNotExists")
          /\ last'.op = "AddRegistry" =>
               IF name \in DOMAIN before THEN Refused("ErrRegistryConfigExists")
               ELSE Replaced]_vars

====
